---- MODULE Spec2Model ----
(***************************************************************************)
(* Model of lite-llm: the inference-server client (internal/ollama), the   *)
(* hardware checker (internal/system) and the commands that drive them.    *)
(*                                                                         *)
(* Three specifications share the module's variables:                      *)
(*   SpecClient    one client operation at a time against a server whose   *)
(*                 answer (transport failure, status code, body) and whose *)
(*                 caller's cancellation are chosen nondeterministically;  *)
(*   SpecProbe     GetSystemInfo, then validateRequirements as CheckAll    *)
(*                 runs it, over an environment of sub-check outcomes      *)
(*                 drawn from bounded sets;                                *)
(*   SpecValidate  validateRequirements on profiles drawn from a bounded   *)
(*                 set.                                                    *)
(***************************************************************************)
EXTENDS Integers, Sequences, FiniteSets, TLC

\* ------------------------------------------------------------------ bounds
\* longest response body, counted in newline-delimited JSON elements
MaxStream == 3

\* longest PCI-enumeration output, counted in lines
MaxLines == 2

\* largest counter value of a /proc/stat line of the inputs
MaxJiffies == 2

\* largest factor the counters of a /proc/stat line are scaled by
MaxScale == 3

\* number of watch cycles that are told apart (later ones count as the last)
MaxCycles == 2

\* ------------------------------------------------------ program constants
\* checker.go:312  GPU memory floor, MB
MinGPUMemoryMB == 6144
\* checker.go:316  system memory floor, MB
MinSystemMemoryMB == 8192
\* checker.go:152, 160, 240  GPU memory assumed when the vendor source fails
DefaultGPUMemoryMB == 8192
\* checker.go:116, 191  j < i+20
ScanWindow == 20

\* ------------------------------------------------------------ checker state
VARIABLES
    env,         \* outcomes of the commands and files the checker consults
    info,        \* the SystemInfo under construction / returned
    probeErr,    \* the error GetSystemInfo returned ("none" before it ran)
    pcChk,       \* start, probed (GetSystemInfo returned), given, validated
    toolkitOk,   \* outcome of the NVIDIA container-passthrough test
    verr         \* what validateRequirements returned and logged

checkerVars == <<env, info, probeErr, pcChk, toolkitOk, verr>>

\* ------------------------------------------------------------- client state
VARIABLES
    op,          \* the client operation in progress ("none" before a call)
    pc,          \* position of the operation: idle, request, body, done
    cancelled,   \* the caller's context has been cancelled
    hasSink,     \* progressCallback != nil
    reqs,        \* HTTP requests issued so far, in order
    statusCode,  \* status of the response (0: no response)
    body,        \* elements the server sends as the response body
    pos,         \* number of elements decoded from the body so far
    delivered,   \* events handed to progressCallback, in order
    closeCount,  \* calls of resp.Body.Close()
    ret,         \* what the operation returned
    exit,        \* the return statement the operation left through
    cmd,         \* the command that made the call ("api": a direct call)
    cmdRet,      \* what the command returned
    log          \* log lines of the command

clientVars == <<op, pc, cancelled, hasSink, reqs, statusCode, body, pos,
                delivered, closeCount, ret, exit, cmd, cmdRet, log>>

\* ------------------------------------------------------------ monitor state
VARIABLES
    files,       \* /proc/stat, /proc/meminfo and the GPU sysfs files as read
    metrics,     \* the PerformanceMetrics sample returned
    mlog,        \* warnings logged by GetPerformanceMetrics, in order
    mpc          \* start, done (GetPerformanceMetrics returned)

monitorVars == <<files, metrics, mlog, mpc>>

\* ------------------------------------------------------------- status state
VARIABLES
    stPc,        \* position of printStatus: idle, probe, health, models, web,
                 \* metrics, returned
    trace,       \* the components printStatus has called, in order
    sysInfo,     \* the profile the probe returned to printStatus
    healthErr,   \* what Health returned to printStatus
    listResult,  \* what ListModels returned to printStatus
    webStatus,   \* webUIStatus and customWebStatus
    sample,      \* the sample the metrics sampler returned to printStatus
    report,      \* the lines printStatus has logged, in order
    statusRet,   \* what printStatus returned
    wpc,         \* position of runStatusWatch: none (not entered), top,
                 \* cycle (in printStatus), sleep
    cycles,      \* calls of printStatus made by the watch loop so far
    watchLog     \* what runStatusWatch has logged and printed, in order

watchVars == <<wpc, cycles, watchLog>>

statusVars == <<stPc, trace, sysInfo, healthErr, listResult, webStatus, sample,
                report, statusRet, watchVars>>

\* ----------------------------------------------- download command state
VARIABLES
    pullIdx,     \* recommended models runDownloadRecommended has started on
    pulls        \* the pulls that have returned: model and kind of the error

recVars == <<pullIdx, pulls>>

vars == <<clientVars, checkerVars, monitorVars, statusVars, recVars>>

\* what an action of one component leaves alone
nonClientVars == <<checkerVars, monitorVars, statusVars, recVars>>
nonCheckerVars == <<clientVars, monitorVars, statusVars, recVars>>
nonMonitorVars == <<clientVars, checkerVars, statusVars, recVars>>
nonStatusVars == <<clientVars, checkerVars, monitorVars, recVars>>
nonCommandVars == <<checkerVars, monitorVars, statusVars>>

\* ------------------------------------------------------------ client values
Ops == {"Health", "ListModels", "PullModel", "DeleteModel", "Generate"}

\* a body element that is not well-formed JSON for the type decoded
Malformed == "<malformed>"
\* PullProgress.Status values the server sends
StatusSet == {"pulling", "success"}
Elements == StatusSet \cup {Malformed}

Bodies == UNION {[1..n -> Elements] : n \in 0..MaxStream}

StatusCodes == {200, 204, 404, 500}

Pending == [kind |-> "pending", cause |-> "none"]
RetNil == [kind |-> "nil", cause |-> "none"]

\* The spec's error kinds, by the way the code builds the error:
\*   an error of httpClient.Do returned as it is           -> Unreachable
\*   fmt.Errorf("failed to decode ...: %w", err)           -> DecodeError
\*   fmt.Errorf("... failed with status: %d", StatusCode)  -> NonSuccessStatus
ErrDo(cause) == [kind |-> "Unreachable", cause |-> cause]
ErrDecode(cause) == [kind |-> "DecodeError", cause |-> cause]
ErrStatus == [kind |-> "NonSuccessStatus", cause |-> "status"]

\* a check that takes every 2xx status for a success
StatusOKAny2xx(code) == code \in 200..299

\* client.go:136, 177  resp.StatusCode != http.StatusOK
StatusOK(code) == code = 200

\* a client whose requests with a body all go through post
RequestAllPost(o) ==
    CASE o = "Health"      -> [method |-> "GET", path |-> "/api/version", stream |-> "none"]
      [] o = "ListModels"  -> [method |-> "GET", path |-> "/api/tags", stream |-> "none"]
      [] o = "PullModel"   -> [method |-> "POST", path |-> "/api/pull", stream |-> "true"]
      [] o = "DeleteModel" -> [method |-> "POST", path |-> "/api/delete", stream |-> "none"]
      [] o = "Generate"    -> [method |-> "POST", path |-> "/api/generate", stream |-> "false"]

\* method, path and stream flag of each operation's request
Request(o) ==
    CASE o = "Health"      -> [method |-> "GET", path |-> "/api/version", stream |-> "none"]
      [] o = "ListModels"  -> [method |-> "GET", path |-> "/api/tags", stream |-> "none"]
      [] o = "PullModel"   -> [method |-> "POST", path |-> "/api/pull", stream |-> "true"]
      [] o = "DeleteModel" -> [method |-> "DELETE", path |-> "/api/delete", stream |-> "none"]
      [] o = "Generate"    -> [method |-> "POST", path |-> "/api/generate", stream |-> "false"]

\* json.Decoder.Decode on the response body after n elements were decoded.
\* ctxDead: the body read fails because the context was cancelled and the
\* element is not already buffered.
Decode(b, n, ctxDead) ==
    IF ctxDead THEN [tag |-> "ctx", value |-> Malformed]
    ELSE IF n >= Len(b) THEN [tag |-> "eof", value |-> Malformed]
    ELSE IF b[n + 1] = Malformed THEN [tag |-> "syntax", value |-> Malformed]
    ELSE [tag |-> "value", value |-> b[n + 1]]

\* a loop that tests for another terminal label than the server's
IsSuccessWrongLabel(progress) == progress = "done"

\* client.go:114  progress.Status == "success"
IsSuccess(progress) == progress = "success"

\* a loop that reports the final event only
DeliverLastOnly(sink, sofar, progress) ==
    IF sink /\ progress = "success" THEN Append(sofar, progress) ELSE sofar

\* client.go:109-111  the callback is called when it is not nil
Deliver(sink, sofar, progress) ==
    IF sink THEN Append(sofar, progress) ELSE sofar

\* a loop that breaks on every Decode error
PullDecodeFailureBreakAll(tag) == RetNil

\* a loop that returns every Decode error, io.EOF included
PullDecodeFailureStrict(tag) == ErrDecode(tag)

\* client.go:102-107  what PullModel does with a Decode error:
\* io.EOF breaks the loop (nil), anything else is wrapped and returned
PullDecodeFailure(tag) ==
    IF tag = "eof" THEN RetNil ELSE ErrDecode(tag)

\* a Close written at the end of the function instead of deferred: the
\* error returns skip it
DeferredCloseAtEnd(path) == IF path \in {"syntax", "ctx"} THEN 0 ELSE 1

\* client.go:97 (72, 134, 160, 175)  defer resp.Body.Close(): the number of
\* Close calls run when the operation returns through `path`
DeferredClose(path) == 1

\* ----------------------------------------------------------- text helpers
\* Text (a line, a file's content, a command's output) is a sequence of
\* tokens; a token is a word, the separator ": ", or a whitespace character.
Whitespace == {" ", "\t", "\n"}

\* strings.TrimSpace
RECURSIVE TrimLeft(_)
TrimLeft(t) ==
    IF t # <<>> /\ Head(t) \in Whitespace THEN TrimLeft(Tail(t)) ELSE t

RECURSIVE TrimRight(_)
TrimRight(t) ==
    IF t # <<>> /\ t[Len(t)] \in Whitespace
    THEN TrimRight(SubSeq(t, 1, Len(t) - 1))
    ELSE t

TrimSpace(t) == TrimRight(TrimLeft(t))

\* strings.Contains(line, tok) for a token
Contains(line, tok) == \E i \in 1..Len(line) : line[i] = tok

\* strings.Split(line, sep): the parts between the occurrences of sep
RECURSIVE SplitFrom(_, _, _)
SplitFrom(line, sep, cur) ==
    IF line = <<>> THEN <<cur>>
    ELSE IF Head(line) = sep
         THEN <<cur>> \o SplitFrom(Tail(line), sep, <<>>)
         ELSE SplitFrom(Tail(line), sep, Append(cur, Head(line)))

Split(line, sep) == SplitFrom(line, sep, <<>>)

\* decimal numerals of the inputs, with the value strconv.Atoi / ParseInt
\* gives them; any other text does not parse
NumeralValue ==
    ("0" :> 0) @@ ("4096" :> 4096) @@ ("8192" :> 8192) @@ ("12288" :> 12288)
    @@ ("4194304" :> 4194304) @@ ("8388608" :> 8388608)
    @@ ("8388000" :> 8388000) @@ ("1073741824" :> 1073741824)
    @@ ("2000000000" :> 2000000000)

Atoi(t) ==
    IF Len(t) = 1 /\ t[1] \in DOMAIN NumeralValue
    THEN [ok |-> TRUE, val |-> NumeralValue[t[1]]]
    ELSE [ok |-> FALSE, val |-> 0]

\* ------------------------------------------------------ PCI output parsing
VGAMarker == "VGA compatible controller"
Sep == ": "

\* (?i)NVIDIA.*(GeForce|RTX|GTX|Tesla|Quadro)
NvidiaNames == {"NVIDIA", "nvidia"}
NvidiaProducts == {"GeForce", "RTX", "GTX", "Tesla", "Quadro"}
\* (?i)(AMD|ATI).*(Radeon|RX|Ellesmere|Polaris)
AmdNames == {"AMD", "ATI", "amd"}
AmdProducts == {"Radeon", "RX", "Ellesmere", "Polaris"}

\* regexp.MatchString for a pattern  name.*product
MatchString(line, names, products) ==
    \E i, j \in 1..Len(line) : i < j /\ line[i] \in names /\ line[j] \in products

\* (?i)memory.*?(\d+)([MG])B : the size tokens and their two submatches
MemoryWords == {"Memory", "memory"}
SizeTokens ==
    ("4GB" :> [digits |-> 4, unit |-> "G"])
    @@ ("8GB" :> [digits |-> 8, unit |-> "G"])
    @@ ("256MB" :> [digits |-> 256, unit |-> "M"])

\* memRegex.FindStringSubmatch: the first size after the first "memory"
\* (<<>> when the line has no match)
RECURSIVE FirstSize(_, _)
FirstSize(line, seenMemory) ==
    IF line = <<>> THEN <<>>
    ELSE IF seenMemory /\ Head(line) \in DOMAIN SizeTokens
         THEN <<SizeTokens[Head(line)]>>
         ELSE FirstSize(Tail(line), seenMemory \/ Head(line) \in MemoryWords)

\* checker.go:124-130  the size in MB of a matched line
SizeMB(m) == IF m.unit = "G" THEN m.digits * 1024 ELSE m.digits

\* checker.go:116-133 (191-208)  the scan of the lines after the VGA line at
\* (1-based) index i: j runs while j <= Len(lines) and j < i + ScanWindow
RECURSIVE ScanMemory(_, _, _)
ScanMemory(lines, i, j) ==
    IF ~(j <= Len(lines) /\ j < i + ScanWindow) THEN 0
    ELSE IF TrimSpace(lines[j]) = <<>> THEN 0
    ELSE LET m == FirstSize(lines[j], FALSE) IN
         IF m # <<>> THEN SizeMB(m[1]) ELSE ScanMemory(lines, i, j + 1)

\* checker.go:106, 181  the condition that selects a vendor's VGA line
IsVendorLine(line, names, products) ==
    Contains(line, VGAMarker) /\ MatchString(line, names, products)

\* checker.go:110-113 (185-188)  the model string of a matched line
ModelOf(line) ==
    LET parts == Split(line, Sep) IN
    IF Len(parts) > 1 THEN TrimSpace(parts[2]) ELSE <<>>

\* checker.go:105-136 (180-211)  the loop over the lines: the first matching
\* line decides model and memory
RECURSIVE ScanLines(_, _, _, _)
ScanLines(lines, i, names, products) ==
    IF i > Len(lines) THEN [has |-> FALSE, model |-> <<>>, memory |-> 0]
    ELSE IF IsVendorLine(lines[i], names, products)
         THEN [has |-> TRUE, model |-> ModelOf(lines[i]),
               memory |-> ScanMemory(lines, i, i + 1)]
         ELSE ScanLines(lines, i + 1, names, products)

\* checker.go:146-161  getNVIDIAMemoryFromSMI
getNVIDIAMemoryFromSMI(smi) ==
    IF ~smi.ok THEN DefaultGPUMemoryMB
    ELSE LET mem == Atoi(TrimSpace(smi.text)) IN
         IF mem.ok THEN mem.val ELSE DefaultGPUMemoryMB

\* checker.go:229  HasPrefix(name, "card") && !Contains(name, "-")
IsCardDir(name) == name # <<>> /\ name[1] = "card" /\ ~Contains(name, "-")

\* checker.go:228-237  the loop over the directory entries
RECURSIVE FirstCardMemory(_)
FirstCardMemory(entries) ==
    IF entries = <<>> THEN DefaultGPUMemoryMB
    ELSE LET e == Head(entries)
             size == Atoi(TrimSpace(e.vram.text)) IN
         IF IsCardDir(e.name) /\ e.vram.ok /\ size.ok
         THEN size.val \div (1024 * 1024)
         ELSE FirstCardMemory(Tail(entries))

\* checker.go:221-241  getGPUMemoryAlternative
getGPUMemoryAlternative(drm) ==
    IF ~drm.listOk THEN 0 ELSE FirstCardMemory(drm.entries)

\* checker.go:88-144  checkNVIDIAGPU
checkNVIDIAGPU(e) ==
    IF ~e.lspci1 THEN [has |-> FALSE, model |-> <<>>, memory |-> 0]
    ELSE LET r == ScanLines(e.pci, 1, NvidiaNames, NvidiaProducts) IN
         IF r.has /\ r.memory = 0
         THEN [r EXCEPT !.memory = getNVIDIAMemoryFromSMI(e.smi)]
         ELSE r

\* checker.go:163-219  checkAMDGPU
checkAMDGPU(e) ==
    IF ~e.lspci2 THEN [has |-> FALSE, model |-> <<>>, memory |-> 0]
    ELSE LET r == ScanLines(e.pci, 1, AmdNames, AmdProducts) IN
         IF r.has /\ r.memory = 0
         THEN [r EXCEPT !.memory = getGPUMemoryAlternative(e.drm)]
         ELSE r

\* checker.go:82-86  checkDocker
checkDocker(e) == e.docker

\* checker.go:243-267  checkROCm
checkROCm(e) ==
    IF e.rocm.stat[1] THEN e.rocm.run[1]
    ELSE IF e.rocm.stat[2] THEN e.rocm.run[2]
    ELSE IF ~e.rocm.lsmodOk THEN FALSE
    ELSE Contains(e.rocm.lsmod, "amdgpu")

\* checker.go:277-288  the scan of /proc/meminfo, a sequence of lines, each a
\* sequence of fields
RECURSIVE ScanMemTotal(_)
ScanMemTotal(lines) ==
    IF lines = <<>> THEN 0
    ELSE LET fields == Head(lines)
             kb == IF Len(fields) >= 2 THEN Atoi(<<fields[2]>>)
                   ELSE [ok |-> FALSE, val |-> 0] IN
         IF fields # <<>> /\ fields[1] = "MemTotal:" /\ kb.ok
         THEN kb.val \div 1024
         ELSE ScanMemTotal(Tail(lines))

\* a reading of /proc/meminfo that reports a failed open as -1
getSystemMemoryMinusOne(e) ==
    IF ~e.meminfo.ok THEN -1 ELSE ScanMemTotal(e.meminfo.lines)

\* checker.go:269-290  getSystemMemory
getSystemMemory(e) ==
    IF ~e.meminfo.ok THEN 0 ELSE ScanMemTotal(e.meminfo.lines)

\* checker.go:292-299  getKernelVersion
getKernelVersion(e) ==
    IF ~e.uname.ok THEN <<"unknown">> ELSE TrimSpace(e.uname.text)

\* a selection that looks at the AMD result first
PrimaryGPUAmdFirst(nv, amd) ==
    IF amd.has THEN [type |-> "amd", model |-> amd.model, memory |-> amd.memory]
    ELSE IF nv.has THEN [type |-> "nvidia", model |-> nv.model, memory |-> nv.memory]
    ELSE [type |-> "unknown", model |-> <<>>, memory |-> 0]

\* a probe that assumes the default memory when no vendor is detected
PrimaryGPUDefaultMemory(nv, amd) ==
    IF nv.has THEN [type |-> "nvidia", model |-> nv.model, memory |-> nv.memory]
    ELSE IF amd.has THEN [type |-> "amd", model |-> amd.model, memory |-> amd.memory]
    ELSE [type |-> "unknown", model |-> <<>>, memory |-> DefaultGPUMemoryMB]

\* checker.go:57-68  the primary GPU: NVIDIA before AMD
PrimaryGPU(nv, amd) ==
    IF nv.has THEN [type |-> "nvidia", model |-> nv.model, memory |-> nv.memory]
    ELSE IF amd.has THEN [type |-> "amd", model |-> amd.model, memory |-> amd.memory]
    ELSE [type |-> "unknown", model |-> <<>>, memory |-> 0]

\* checker.go:48  info := &SystemInfo{}
ZeroInfo ==
    [HasDocker |-> FALSE, HasROCm |-> FALSE, HasNVIDIA |-> FALSE,
     HasAMDGPU |-> FALSE, GPUMemory |-> 0, SystemMemory |-> 0,
     GPUModel |-> <<>>, GPUType |-> "", KernelVersion |-> <<>>]

\* checker.go:47-80  GetSystemInfo: the profile it returns (its error is nil).
\* Lines 54-55 are read as assignments of the three results of each check.
GetSystemInfo(e) ==
    LET nv == checkNVIDIAGPU(e)
        amd == checkAMDGPU(e)
        gpu == PrimaryGPU(nv, amd) IN
    [HasDocker |-> checkDocker(e),
     HasROCm |-> checkROCm(e),
     HasNVIDIA |-> nv.has,
     HasAMDGPU |-> amd.has,
     GPUMemory |-> gpu.memory,
     SystemMemory |-> getSystemMemory(e),
     GPUModel |-> gpu.model,
     GPUType |-> gpu.type,
     KernelVersion |-> getKernelVersion(e)]

\* ------------------------------------------------------------- validation
\* a validation that counts a missing ROCm among the violations
RequirementErrorsRocmFatal(i) ==
    (IF ~i.HasDocker THEN <<"Docker is not installed or not accessible">> ELSE <<>>)
    \o (IF ~i.HasNVIDIA /\ ~i.HasAMDGPU
        THEN <<"No supported GPU detected (NVIDIA or AMD)">> ELSE <<>>)
    \o (IF i.GPUMemory < MinGPUMemoryMB
        THEN <<"GPU memory (" \o ToString(i.GPUMemory)
               \o "MB) is below recommended minimum (6GB)">> ELSE <<>>)
    \o (IF i.SystemMemory < MinSystemMemoryMB
        THEN <<"System memory (" \o ToString(i.SystemMemory)
               \o "MB) is below recommended minimum (8GB)">> ELSE <<>>)
    \o (IF i.GPUType = "amd" /\ ~i.HasROCm THEN <<"ROCm not detected">> ELSE <<>>)

\* a validation that appends the two memory violations in the other order
RequirementErrorsSwapped(i) ==
    (IF ~i.HasDocker THEN <<"Docker is not installed or not accessible">> ELSE <<>>)
    \o (IF ~i.HasNVIDIA /\ ~i.HasAMDGPU
        THEN <<"No supported GPU detected (NVIDIA or AMD)">> ELSE <<>>)
    \o (IF i.SystemMemory < MinSystemMemoryMB
        THEN <<"System memory (" \o ToString(i.SystemMemory)
               \o "MB) is below recommended minimum (8GB)">> ELSE <<>>)
    \o (IF i.GPUMemory < MinGPUMemoryMB
        THEN <<"GPU memory (" \o ToString(i.GPUMemory)
               \o "MB) is below recommended minimum (6GB)">> ELSE <<>>)

\* checker.go:302-318  the violations appended to `errors`, in order
RequirementErrors(i) ==
    (IF ~i.HasDocker THEN <<"Docker is not installed or not accessible">> ELSE <<>>)
    \o (IF ~i.HasNVIDIA /\ ~i.HasAMDGPU
        THEN <<"No supported GPU detected (NVIDIA or AMD)">> ELSE <<>>)
    \o (IF i.GPUMemory < MinGPUMemoryMB
        THEN <<"GPU memory (" \o ToString(i.GPUMemory)
               \o "MB) is below recommended minimum (6GB)">> ELSE <<>>)
    \o (IF i.SystemMemory < MinSystemMemoryMB
        THEN <<"System memory (" \o ToString(i.SystemMemory)
               \o "MB) is below recommended minimum (8GB)">> ELSE <<>>)

\* checker.go:320-333  the warnings logged (two lines each)
RequirementWarnings(i, tk) ==
    (IF i.GPUType = "amd" /\ ~i.HasROCm THEN <<"ROCm not detected">> ELSE <<>>)
    \o (IF i.GPUType = "nvidia" /\ ~tk
        THEN <<"NVIDIA Container Toolkit not detected">> ELSE <<>>)

\* checker.go:336  "system requirements not met:\n  - " + Join(errors,
\* "\n  - "), as the lines of the message
ErrorLines(errors) ==
    <<"system requirements not met:">>
    \o [k \in 1..Len(errors) |-> "  - " \o errors[k]]

\* checker.go:301-340  validateRequirements: the error (<<>> is nil) as its
\* lines, and the warnings logged
validateRequirements(i, tk) ==
    LET errors == RequirementErrors(i) IN
    [err |-> IF Len(errors) > 0 THEN ErrorLines(errors) ELSE <<>>,
     warns |-> RequirementWarnings(i, tk)]

\* ------------------------------------------------------ checker input sets
NvLine == <<"01:00.0", " ", VGAMarker, Sep, "NVIDIA", " ", "GeForce">>
AmdLine == <<"03:00.0", " ", VGAMarker, Sep, "AMD", " ", "Radeon">>
MemLine == <<"\t", "Memory", " ", "4GB">>
BlankLine == <<>>
\* matches the NVIDIA pattern but is no VGA controller
DecoyLine == <<"04:00.0", " ", "3D controller", Sep, "NVIDIA", " ", "Tesla">>

\* VGA lines whose text after the first ": " holds another ": "
NvColonLine ==
    <<"01:00.0", " ", VGAMarker, Sep, "NVIDIA", " ", "Corporation", Sep, "GeForce">>
AmdColonLine ==
    <<"03:00.0", " ", VGAMarker, Sep, "AMD", Sep, "Radeon">>

\* a line of a device's block that is neither blank nor about memory
DetailLine == <<"\t", "Flags:", " ", "bus master">>
SmallMemLine == <<"\t", "Memory", " ", "at", " ", "f0000000", " ", "256MB">>

\* a VGA line, n detail lines, and a memory line n + 1 lines after it
FarMemory(vga, n) == <<vga>> \o [k \in 1..n |-> DetailLine] \o <<SmallMemLine>>

PciLines == {NvLine, AmdLine, MemLine}
PciOutputs ==
    UNION {[1..n -> PciLines] : n \in 0..MaxLines}
    \cup {<<DecoyLine>>, <<DecoyLine, MemLine>>, <<DecoyLine, AmdLine>>,
          <<NvLine, AmdLine, MemLine>>, <<AmdLine, MemLine, NvLine>>,
          <<NvLine, BlankLine, MemLine>>, <<AmdLine, BlankLine, NvLine>>,
          <<BlankLine>>, <<AmdLine, BlankLine, MemLine>>,
          <<NvColonLine>>, <<AmdColonLine, MemLine>>}
    \cup {FarMemory(vga, n) :
            vga \in {NvLine, AmdLine},
            n \in {ScanWindow - 2, ScanWindow - 1, ScanWindow}}

Unused == [ok |-> FALSE, text |-> <<"<unused>">>]
SmiOutcomes ==
    { [ok |-> FALSE, text |-> <<>>],
      [ok |-> TRUE, text |-> <<"N/A", "\n">>],
      [ok |-> TRUE, text |-> <<"12288", "\n">>] }

NoDrm == [listOk |-> FALSE, entries |-> <<>>]
CardDir(text) ==
    [name |-> <<"card", "0">>, vram |-> [ok |-> TRUE, text |-> text]]
ConnectorDir ==
    [name |-> <<"card", "0", "-", "DP", "1">>,
     vram |-> [ok |-> TRUE, text |-> <<"2000000000", "\n">>]]
DrmOutcomes ==
    { NoDrm,
      [listOk |-> TRUE, entries |-> <<ConnectorDir>>],
      [listOk |-> TRUE,
       entries |-> <<ConnectorDir, CardDir(<<"1073741824", "\n">>)>>],
      [listOk |-> TRUE,
       entries |-> <<[name |-> <<"card", "0">>,
                      vram |-> [ok |-> FALSE, text |-> <<>>]]>>] }

RocmOutcomes ==
    { [stat |-> <<TRUE, FALSE>>, run |-> <<TRUE, FALSE>>,
       lsmodOk |-> FALSE, lsmod |-> <<>>],
      [stat |-> <<FALSE, FALSE>>, run |-> <<FALSE, FALSE>>,
       lsmodOk |-> FALSE, lsmod |-> <<>>],
      [stat |-> <<FALSE, FALSE>>, run |-> <<FALSE, FALSE>>,
       lsmodOk |-> TRUE, lsmod |-> <<"amdgpu", "\n">>],
      [stat |-> <<FALSE, TRUE>>, run |-> <<FALSE, TRUE>>,
       lsmodOk |-> FALSE, lsmod |-> <<>>],
      [stat |-> <<TRUE, TRUE>>, run |-> <<FALSE, TRUE>>,
       lsmodOk |-> FALSE, lsmod |-> <<>>],
      [stat |-> <<TRUE, FALSE>>, run |-> <<FALSE, FALSE>>,
       lsmodOk |-> TRUE, lsmod |-> <<"amdgpu", "\n">>] }

MeminfoOutcomes ==
    { [ok |-> FALSE, lines |-> <<>>],
      [ok |-> TRUE, lines |-> << <<"MemFree:", "4194304", "kB">> >>],
      [ok |-> TRUE, lines |-> << <<"MemTotal:", "8388000", "kB">>,
                                 <<"MemFree:", "4194304", "kB">> >>] }

UnameOutcomes ==
    { [ok |-> FALSE, text |-> <<>>],
      [ok |-> TRUE, text |-> <<"6.8.0-generic", "\n">>] }

NoEnv ==
    [docker |-> FALSE, lspci1 |-> FALSE, lspci2 |-> FALSE, pci |-> <<>>,
     smi |-> Unused, drm |-> NoDrm,
     rocm |-> [stat |-> <<FALSE, FALSE>>, run |-> <<FALSE, FALSE>>,
               lsmodOk |-> FALSE, lsmod |-> <<>>],
     meminfo |-> [ok |-> FALSE, lines |-> <<>>],
     uname |-> [ok |-> FALSE, text |-> <<>>]]

\* whether a run of GetSystemInfo in e consults nvidia-smi / the DRM class
\* directory (checker.go:139, 214)
ConsultsSMI(e) ==
    e.lspci1 /\ LET r == ScanLines(e.pci, 1, NvidiaNames, NvidiaProducts)
                IN r.has /\ r.memory = 0
ConsultsDRM(e) ==
    e.lspci2 /\ LET r == ScanLines(e.pci, 1, AmdNames, AmdProducts)
                IN r.has /\ r.memory = 0

\* profiles given to validateRequirements directly
MemoryValues(floor) == {0, 4096, floor - 1, floor, floor + 4096}
GivenInfos ==
    { [HasDocker |-> d, HasROCm |-> r, HasNVIDIA |-> n, HasAMDGPU |-> a,
       GPUMemory |-> g, SystemMemory |-> m, GPUModel |-> <<>>,
       GPUType |-> t, KernelVersion |-> <<"unknown">>] :
      d \in BOOLEAN, r \in BOOLEAN, n \in BOOLEAN, a \in BOOLEAN,
      g \in MemoryValues(MinGPUMemoryMB), m \in MemoryValues(MinSystemMemoryMB),
      t \in {"nvidia", "amd", "unknown"} }

NoVerr == [err |-> <<>>, warns |-> <<>>]

InitCheckerIdle ==
    /\ env = NoEnv
    /\ info = ZeroInfo
    /\ probeErr = "none"
    /\ pcChk = "start"
    /\ toolkitOk = FALSE
    /\ verr = NoVerr

\* ---------------------------------------------------------- checker actions
\* checker.go:47-80  GetSystemInfo in an environment whose sub-checks succeed
\* or fail independently; a source that is not consulted has no outcome
GetSystemInfoRun ==
    /\ pcChk = "start"
    /\ \E d \in BOOLEAN, l1 \in BOOLEAN, l2 \in BOOLEAN, out \in PciOutputs,
          rc \in RocmOutcomes, mi \in MeminfoOutcomes, un \in UnameOutcomes :
        LET e0 == [NoEnv EXCEPT !.docker = d, !.lspci1 = l1, !.lspci2 = l2,
                                !.pci = out, !.rocm = rc, !.meminfo = mi,
                                !.uname = un] IN
        \E smi \in (IF ConsultsSMI(e0) THEN SmiOutcomes ELSE {Unused}),
           drm \in (IF ConsultsDRM(e0) THEN DrmOutcomes ELSE {NoDrm}) :
            LET e == [e0 EXCEPT !.smi = smi, !.drm = drm] IN
            /\ env' = e
            /\ info' = GetSystemInfo(e)
    /\ probeErr' = "nil"
    /\ pcChk' = "probed"
    /\ UNCHANGED <<toolkitOk, verr>>
    /\ UNCHANGED nonCheckerVars

\* checker.go:39, 301-340  validateRequirements on the profile at hand
ValidateRun ==
    /\ pcChk \in {"probed", "given"}
    /\ \E tk \in (IF info.GPUType = "nvidia" THEN BOOLEAN ELSE {FALSE}) :
        /\ toolkitOk' = tk
        /\ verr' = validateRequirements(info, tk)
    /\ pcChk' = "validated"
    /\ UNCHANGED <<env, info, probeErr>>
    /\ UNCHANGED nonCheckerVars

InitGiven ==
    /\ env = NoEnv
    /\ info \in GivenInfos
    /\ probeErr = "none"
    /\ pcChk = "given"
    /\ toolkitOk = FALSE
    /\ verr = NoVerr

\* ------------------------------------------------------- metrics sampler
\* A float64 value is kept exactly, as a fraction in lowest terms.
RECURSIVE GCD(_, _)
GCD(a, b) == IF b = 0 THEN a ELSE GCD(b, a % b)

Ratio(n, d) ==
    LET g == GCD(IF n < 0 THEN -n ELSE n, d) IN
    [num |-> n \div g, den |-> d \div g]

Float(n) == [num |-> n, den |-> 1]

\* strings.Fields: the maximal runs without white space
Fields(line) == SelectSeq(line, LAMBDA t : t \notin Whitespace)

\* decimal numerals of the counters, with the value strconv.ParseUint gives
\* them; any other text does not parse
Jiffies ==
    [t \in {ToString(n) : n \in 0..(MaxJiffies * MaxScale)} |->
        CHOOSE n \in 0..(MaxJiffies * MaxScale) : ToString(n) = t]

ParseUint(tok) ==
    IF tok \in DOMAIN Jiffies
    THEN [ok |-> TRUE, val |-> Jiffies[tok]]
    ELSE [ok |-> FALSE, val |-> 0]

RECURSIVE SumFrom(_, _)
SumFrom(fields, i) ==
    IF i > Len(fields) THEN 0
    ELSE ParseUint(fields[i]).val + SumFrom(fields, i + 1)

\* a usage with a denominator that is never zero
CPUPercentPlusOne(total, idle) == Ratio((total - idle) * 100, total + 1)

\* a usage that is the idle share of the time
CPUPercentIdleShare(total, idle) == Ratio(idle * 100, total)

\* client.go:310  float64(total-idle) / float64(total) * 100
CPUPercent(total, idle) == Ratio((total - idle) * 100, total)

\* client.go:280-289  the err returned when the first line is missing or is
\* not the aggregate line: the nil err of the successful os.Open
FirstLineError == "none"

\* client.go:272-311  getCPUUsage
getCPUUsage(stat) ==
    IF ~stat.open THEN [usage |-> Float(0), err |-> "open /proc/stat"]
    ELSE IF stat.lines = <<>>
    THEN [usage |-> Float(0), err |-> FirstLineError]
    ELSE LET fields == Fields(stat.lines[1]) IN
         IF Len(fields) < 8 \/ fields[1] # "cpu"
         THEN [usage |-> Float(0), err |-> FirstLineError]
         ELSE IF \E i \in 2..Len(fields) : ~ParseUint(fields[i]).ok
         THEN [usage |-> Float(0), err |-> "invalid syntax"]
         ELSE LET total == SumFrom(fields, 2)
                  idle == ParseUint(fields[5]).val IN
              IF total = 0 THEN [usage |-> Float(0), err |-> "none"]
              ELSE [usage |-> CPUPercent(total, idle), err |-> "none"]

\* strings.TrimSuffix(key, ":") on the keys of the inputs
MemKeys == {"MemTotal", "MemFree", "Buffers", "Cached", "SwapTotal"}
TrimColon(tok) ==
    IF \E k \in MemKeys : tok = k \o ":"
    THEN CHOOSE k \in MemKeys : tok = k \o ":"
    ELSE tok

\* a conversion that takes 1000 kB for a MB
KBToMBDecimal(kb) == kb \div 1000

\* client.go:338-344  value / 1024
KBToMB(kb) == kb \div 1024

\* client.go:326-346  the scan of the lines: a line with fewer than two
\* fields or a value that does not parse is skipped, a later line of a key
\* replaces an earlier one
RECURSIVE ScanMeminfo(_, _)
ScanMeminfo(lines, acc) ==
    IF lines = <<>> THEN acc
    ELSE LET fields == Fields(Head(lines))
             value == IF Len(fields) < 2 THEN [ok |-> FALSE, val |-> 0]
                      ELSE Atoi(<<fields[2]>>)
             key == IF Len(fields) < 2 THEN "" ELSE TrimColon(fields[1])
             next == IF value.ok /\ key \in DOMAIN acc
                     THEN [acc EXCEPT ![key] = KBToMB(value.val)]
                     ELSE acc
         IN ScanMeminfo(Tail(lines), next)

NoMemory == [MemTotal |-> 0, MemFree |-> 0, Buffers |-> 0, Cached |-> 0]

\* a reading that takes everything that is not free for used
getMemoryUsageFreeOnly(meminfo) ==
    IF ~meminfo.open THEN [used |-> 0, total |-> 0, err |-> "open /proc/meminfo"]
    ELSE LET m == ScanMeminfo(meminfo.lines, NoMemory) IN
         [used |-> m.MemTotal - m.MemFree, total |-> m.MemTotal, err |-> "none"]

\* client.go:313-350  getMemoryUsage
getMemoryUsage(meminfo) ==
    IF ~meminfo.open THEN [used |-> 0, total |-> 0, err |-> "open /proc/meminfo"]
    ELSE LET m == ScanMeminfo(meminfo.lines, NoMemory) IN
         [used |-> m.MemTotal - m.MemFree - m.Buffers - m.Cached,
          total |-> m.MemTotal, err |-> "none"]

\* client.go:374-386  getAMDGPUMemory: bytes, 0 when the file cannot be read
\* or does not parse
getAMDGPUMemory(file) ==
    IF ~file.ok THEN 0
    ELSE LET v == Atoi(TrimSpace(file.data)) IN
         IF v.ok THEN v.val ELSE 0

\* values strconv.ParseFloat gives the texts of the inputs
BusyValue == ("0" :> 0) @@ ("37" :> 37) @@ ("100" :> 100)

ParseFloat(t) ==
    IF Len(t) = 1 /\ t[1] \in DOMAIN BusyValue
    THEN [ok |-> TRUE, val |-> Float(BusyValue[t[1]])]
    ELSE [ok |-> FALSE, val |-> Float(0)]

\* client.go:388-413  getAMDGPUUsagePercent: the first path that can be read
\* and parsed
RECURSIVE getAMDGPUUsagePercent(_)
getAMDGPUUsagePercent(paths) ==
    IF paths = <<>> THEN Float(-1)
    ELSE LET file == Head(paths)
             usage == ParseFloat(TrimSpace(file.data)) IN
         IF file.ok /\ usage.ok THEN usage.val
         ELSE getAMDGPUUsagePercent(Tail(paths))

\* client.go:364-365  bytes / (1024 * 1024)
BytesToMB(b) == b \div (1024 * 1024)

\* a reading that reports usage and memory without looking at the total
getAMDGPUUsageUnguarded(f) ==
    [usage |-> getAMDGPUUsagePercent(<<f.busy1, f.busy2>>),
     usedMB |-> BytesToMB(getAMDGPUMemory(f.vramUsed)),
     totalMB |-> BytesToMB(getAMDGPUMemory(f.vramTotal))]

\* client.go:352-372  getAMDGPUUsage
getAMDGPUUsage(f) ==
    LET gpuMemTotal == getAMDGPUMemory(f.vramTotal)
        gpuMemUsed == getAMDGPUMemory(f.vramUsed) IN
    IF gpuMemTotal > 0
    THEN [usage |-> getAMDGPUUsagePercent(<<f.busy1, f.busy2>>),
          usedMB |-> BytesToMB(gpuMemUsed), totalMB |-> BytesToMB(gpuMemTotal)]
    ELSE [usage |-> Float(-1), usedMB |-> 0, totalMB |-> 0]

\* client.go:236-239  the sample as allocated
NewMetrics ==
    [isNil |-> FALSE, CPUUsage |-> Float(0),
     MemoryUsedMB |-> 0, MemoryTotalMB |-> 0, MemoryUsagePercent |-> Float(0),
     GPUUsage |-> Float(-1), GPUMemoryUsedMB |-> 0, GPUMemoryTotalMB |-> 0]

\* client.go:263  if gpuUsage >= 0
GPUFieldsSet(gpu) == gpu.usage.num >= 0

\* client.go:235-270  GetPerformanceMetrics: the sample and the warnings
GetPerformanceMetrics(f) ==
    LET cpu == getCPUUsage(f.stat)
        mem == getMemoryUsage(f.meminfo)
        gpu == getAMDGPUUsage(f)
        m1 == IF cpu.err # "none" THEN NewMetrics
              ELSE [NewMetrics EXCEPT !.CPUUsage = cpu.usage]
        m2 == IF mem.err # "none" THEN m1
              ELSE [m1 EXCEPT
                      !.MemoryUsedMB = mem.used,
                      !.MemoryTotalMB = mem.total,
                      !.MemoryUsagePercent =
                          IF mem.total > 0
                          THEN Ratio(mem.used * 100, mem.total)
                          ELSE Float(0)]
        m3 == IF GPUFieldsSet(gpu)
              THEN [m2 EXCEPT !.GPUUsage = gpu.usage,
                              !.GPUMemoryUsedMB = gpu.usedMB,
                              !.GPUMemoryTotalMB = gpu.totalMB]
              ELSE m2
    IN [sample |-> m3,
        warnings |->
            (IF cpu.err # "none"
             THEN <<[format |-> "Failed to get CPU usage: %v", err |-> cpu.err]>>
             ELSE <<>>)
            \o (IF mem.err # "none"
                THEN <<[format |-> "Failed to get memory usage: %v",
                        err |-> mem.err]>>
                ELSE <<>>)]

\* ---------------------------------------------- inputs of the sampler
\* A file is what os.Open and the scanner make of it: open tells whether it
\* could be opened, lines are the lines the scanner yields, and readErr tells
\* whether the scanner stopped on a read error rather than at the end of the
\* file (the sampler never calls scanner.Err()).
\* the aggregate line of /proc/stat: user nice system idle iowait irq softirq
StatLine(user, system, idle) ==
    <<"cpu", " ", " ", ToString(user), " ", "0", " ", ToString(system), " ",
      ToString(idle), " ", "0", " ", "0", " ", "0">>

StatOutcomes ==
    {[open |-> FALSE, readErr |-> FALSE, lines |-> <<>>],
     [open |-> TRUE, readErr |-> FALSE, lines |-> <<>>],
     [open |-> TRUE, readErr |-> TRUE, lines |-> <<>>],
     [open |-> TRUE, readErr |-> FALSE,
      lines |-> <<<<"cpu", " ", "1", " ", "2">>>>],
     [open |-> TRUE, readErr |-> FALSE,
      lines |-> <<<<"cpu0", " ", "1", " ", "0", " ", "1", " ", "2", " ",
                    "0", " ", "0", " ", "0">>>>],
     [open |-> TRUE, readErr |-> FALSE,
      lines |-> <<<<"cpu", " ", "1", " ", "0", " ", "x", " ", "2", " ",
                    "0", " ", "0", " ", "0">>>>],
     [open |-> TRUE, readErr |-> FALSE,
      lines |-> <<<<"cpu", " ", " ", "1", " ", "0", " ", "1", " ", "2", " ",
                    "0", " ", "0", " ", "0", " ", "0", " ", "0", " ", "1">>,
                  <<"cpu0", " ", "1", " ", "0", " ", "1", " ", "2", " ",
                    "0", " ", "0", " ", "0", " ", "0", " ", "0", " ", "1">>>>]}
    \cup {[open |-> TRUE, readErr |-> FALSE,
      lines |-> <<StatLine(u, s, i)>>] :
            u \in 0..MaxJiffies, s \in 0..MaxJiffies, i \in 0..MaxJiffies}

MemInfoLine(key, value) == <<key \o ":", " ", " ", value, " ", "kB">>

MonitorMeminfoOutcomes ==
    {[open |-> FALSE, readErr |-> FALSE, lines |-> <<>>],
     [open |-> TRUE, readErr |-> FALSE, lines |-> <<>>],
     [open |-> TRUE, readErr |-> TRUE, lines |-> <<>>],
     [open |-> TRUE, readErr |-> FALSE,
      lines |-> <<MemInfoLine("MemTotal", "8388608"),
                  MemInfoLine("MemFree", "4194304"),
                  MemInfoLine("Buffers", "4096"),
                  MemInfoLine("Cached", "12288")>>],
     [open |-> TRUE, readErr |-> FALSE,
      lines |-> <<MemInfoLine("MemFree", "4194304"),
                  MemInfoLine("SwapTotal", "0"),
                  MemInfoLine("MemTotal", "8388000")>>],
     [open |-> TRUE, readErr |-> FALSE,
      lines |-> <<MemInfoLine("MemTotal", "4096")>>],
     [open |-> TRUE, readErr |-> FALSE,
      lines |-> <<<<"MemTotal:">>, MemInfoLine("MemTotal", "12288"),
                  MemInfoLine("Cached", "lots")>>],
     [open |-> TRUE, readErr |-> FALSE,
      lines |-> <<MemInfoLine("MemFree", "4194304")>>],
     [open |-> TRUE, readErr |-> FALSE,
      lines |-> <<MemInfoLine("MemTotal", "lots"),
                  MemInfoLine("MemFree", "8192")>>]}

Absent == [ok |-> FALSE, data |-> <<>>]
FileOf(text) == [ok |-> TRUE, data |-> <<text, "\n">>]

VramTotalOutcomes ==
    {Absent, FileOf("n/a"), FileOf("0"), FileOf("4096"), FileOf("1073741824")}
VramUsedOutcomes == {Absent, FileOf("4194304"), FileOf("1073741824")}
BusyOutcomes == {Absent, FileOf("n/a"), FileOf("37")}
Busy2Outcomes == {Absent, FileOf("0")}

NoFiles ==
    [stat |-> [open |-> FALSE, readErr |-> FALSE, lines |-> <<>>],
     meminfo |-> [open |-> FALSE, readErr |-> FALSE, lines |-> <<>>],
     vramTotal |-> Absent, vramUsed |-> Absent,
     busy1 |-> Absent, busy2 |-> Absent]

\* files all of whose reads succeed
GoodFiles ==
    [stat |-> [open |-> TRUE, readErr |-> FALSE, lines |-> <<StatLine(1, 1, 2)>>],
     meminfo |-> [open |-> TRUE, readErr |-> FALSE,
                  lines |-> <<MemInfoLine("MemTotal", "8388608")>>],
     vramTotal |-> FileOf("1073741824"), vramUsed |-> FileOf("4194304"),
     busy1 |-> FileOf("37"), busy2 |-> FileOf("0")]

InitMonitorIdle ==
    /\ files = NoFiles
    /\ metrics = [NewMetrics EXCEPT !.isNil = TRUE]
    /\ mlog = <<>>
    /\ mpc = "start"

\* client.go:235-270  one call of GetPerformanceMetrics on files whose reads
\* succeed or fail independently
GetPerformanceMetricsRun ==
    /\ mpc = "start"
    /\ \E st \in StatOutcomes, mi \in MonitorMeminfoOutcomes,
          vt \in VramTotalOutcomes, vu \in VramUsedOutcomes,
          b1 \in BusyOutcomes, b2 \in Busy2Outcomes :
          LET f == [stat |-> st, meminfo |-> mi, vramTotal |-> vt,
                    vramUsed |-> vu, busy1 |-> b1, busy2 |-> b2]
              r == GetPerformanceMetrics(f)
          IN /\ files' = f
             /\ metrics' = r.sample
             /\ mlog' = r.warnings
    /\ mpc' = "done"
    /\ UNCHANGED nonMonitorVars

\* --------------------------------------------------------- status command
\* part_001:153-158  formatStatus (the check mark and the cross are left out)
formatStatus(status) == IF status THEN "Running" ELSE "Not Running"

\* part_001:160-169  checkWebInterface on the outcome of client.Get
checkWebInterface(o) == ~o.err /\ o.code = 200

\* client.go:170-182  Health on the outcome of its request
HealthResult(o) ==
    IF o.err THEN ErrDo("transport")
    ELSE IF ~StatusOK(o.code) THEN ErrStatus
    ELSE RetNil

\* client.go:67-80  ListModels on the outcome of its request: the status is
\* not looked at, the body is decoded
ListModelsResult(o) ==
    IF o.err THEN [models |-> <<>>, err |-> ErrDo("transport")]
    ELSE IF ~o.decodable THEN [models |-> <<>>, err |-> ErrDecode("syntax")]
    ELSE [models |-> o.models, err |-> RetNil]

\* fmt "%.1f": the tenths of a value, rounded to nearest, ties to even
FormatTenths(r) ==
    LET n == IF r.num < 0 THEN -r.num ELSE r.num
        q == (n * 10) \div r.den
        twice == 2 * ((n * 10) % r.den)
        up == twice > r.den \/ (twice = r.den /\ q % 2 = 1)
        t == IF up THEN q + 1 ELSE q
    IN IF r.num < 0 THEN -t ELSE t

Line(format, args) == [format |-> format, args |-> args]

\* part_001:62-64, 67-82  the header and the system section for a profile
SystemLines(i) ==
    <<Line("=== Lite LLM Status ===", <<>>),
      Line("Timestamp: %s", <<"now">>),
      Line("=== System Information ===", <<>>),
      Line("Kernel: %s", <<i.KernelVersion>>),
      Line("Docker: %v", <<formatStatus(i.HasDocker)>>),
      Line("AMD GPU: %v", <<formatStatus(i.HasAMDGPU)>>)>>
    \o (IF i.HasAMDGPU
        THEN <<Line("  Model: %s", <<i.GPUModel>>),
               Line("  Memory: %d MB", <<i.GPUMemory>>)>>
        ELSE <<>>)
    \o <<Line("ROCm: %v", <<formatStatus(i.HasROCm)>>),
         Line("System Memory: %d MB", <<i.SystemMemory>>)>>

\* part_001:85-88  the container section
ContainerLines ==
    <<Line("=== Container Services ===", <<>>),
      Line("Note: Use Portainer to manage Docker containers", <<>>),
      Line("Expected containers: ollama-amd, open-webui", <<>>)>>

\* part_001:91-101  the lines for the outcome of Health
HealthLines(err) ==
    <<Line("=== Ollama Service ===", <<>>)>>
    \o (IF err # RetNil
        THEN <<Line("Ollama API: %v", <<formatStatus(FALSE)>>),
               Line("  Error: %v", <<err.kind>>)>>
        ELSE <<Line("Ollama API: %v", <<formatStatus(TRUE)>>),
               Line("  Endpoint: http://localhost:11434", <<>>)>>)

\* part_001:104-112  the lines for the outcome of ListModels
ModelLines(r) ==
    IF r.err # RetNil
    THEN <<Line("  Models: Failed to list (%v)", <<r.err.kind>>)>>
    ELSE <<Line("  Models: %d installed", <<Len(r.models)>>)>>
         \o [k \in 1..Len(r.models) |->
               Line("    - %s (%.1f GB)",
                    <<r.models[k].Name,
                      FormatTenths(Ratio(r.models[k].Size,
                                         1024 * 1024 * 1024))>>)]

\* part_001:117-131  the lines for the two web interfaces
WebLines(webUIStatus, customWebStatus) ==
    <<Line("=== Web Interfaces ===", <<>>),
      Line("Open WebUI: %v", <<formatStatus(webUIStatus)>>)>>
    \o (IF webUIStatus THEN <<Line("  URL: http://localhost:3000", <<>>)>>
        ELSE <<>>)
    \o <<Line("Custom Web: %v", <<formatStatus(customWebStatus)>>)>>
    \o (IF customWebStatus THEN <<Line("  URL: http://localhost:8080", <<>>)>>
        ELSE <<>>)

\* part_001:135-148  the lines for a sample
MetricsLines(m) ==
    <<Line("=== Performance Metrics ===", <<>>)>>
    \o (IF ~m.isNil
        THEN <<Line("CPU Usage: %.1f%%", <<FormatTenths(m.CPUUsage)>>),
               Line("Memory Usage: %.1f%% (%d MB / %d MB)",
                    <<FormatTenths(m.MemoryUsagePercent), m.MemoryUsedMB,
                      m.MemoryTotalMB>>)>>
             \o (IF m.GPUUsage.num >= 0
                 THEN <<Line("GPU Usage: %.1f%%", <<FormatTenths(m.GPUUsage)>>)>>
                 ELSE <<>>)
        ELSE <<Line("Performance metrics unavailable", <<>>)>>)

\* environments the status command probes
StatusEnvs ==
    {NoEnv,
     [NoEnv EXCEPT !.docker = TRUE, !.lspci1 = TRUE, !.lspci2 = TRUE,
                   !.pci = <<NvLine>>,
                   !.smi = [ok |-> TRUE, text |-> <<"12288", "\n">>],
                   !.meminfo = [ok |-> TRUE,
                                lines |-> << <<"MemTotal:", "8388000", "kB">> >>],
                   !.uname = [ok |-> TRUE, text |-> <<"6.8.0-generic", "\n">>]],
     [NoEnv EXCEPT !.docker = TRUE, !.lspci1 = TRUE, !.lspci2 = TRUE,
                   !.pci = <<AmdLine, MemLine>>,
                   !.rocm = [stat |-> <<TRUE, FALSE>>, run |-> <<TRUE, FALSE>>,
                             lsmodOk |-> FALSE, lsmod |-> <<>>],
                   !.uname = [ok |-> TRUE, text |-> <<"6.8.0-generic", "\n">>]],
     [NoEnv EXCEPT !.lspci1 = TRUE, !.lspci2 = TRUE,
                   !.pci = <<AmdLine>>,
                   !.drm = [listOk |-> TRUE,
                            entries |-> <<CardDir(<<"1073741824", "\n">>)>>]],
     [NoEnv EXCEPT !.docker = TRUE, !.lspci1 = TRUE, !.lspci2 = TRUE,
                   !.pci = <<NvLine, AmdLine>>,
                   !.smi = [ok |-> FALSE, text |-> <<>>]]}

\* outcomes of the requests of Health, ListModels and checkWebInterface
HealthOutcomes ==
    {[err |-> TRUE, code |-> 0]}
    \cup {[err |-> FALSE, code |-> c] : c \in StatusCodes}

ListModelsOutcomes ==
    {[err |-> TRUE, decodable |-> FALSE, models |-> <<>>],
     [err |-> FALSE, decodable |-> FALSE, models |-> <<>>],
     [err |-> FALSE, decodable |-> TRUE, models |-> <<>>],
     [err |-> FALSE, decodable |-> TRUE,
      models |-> <<[Name |-> "llama3.2:3b", Size |-> 2000000000]>>]}

WebOutcomes ==
    {[err |-> TRUE, code |-> 0], [err |-> FALSE, code |-> 200],
     [err |-> FALSE, code |-> 404]}

\* files the status command samples
StatusFiles ==
    {NoFiles, GoodFiles,
     [GoodFiles EXCEPT !.busy1 = Absent, !.busy2 = Absent],
     [GoodFiles EXCEPT !.stat = [open |-> TRUE, readErr |-> TRUE,
                                 lines |-> <<>>],
                       !.vramTotal = Absent]}

NoListResult == [models |-> <<>>, err |-> Pending]

InitStatusIdle ==
    /\ stPc = "idle"
    /\ trace = <<>>
    /\ sysInfo = ZeroInfo
    /\ healthErr = Pending
    /\ listResult = NoListResult
    /\ webStatus = <<FALSE, FALSE>>
    /\ sample = [NewMetrics EXCEPT !.isNil = TRUE]
    /\ report = <<>>
    /\ statusRet = "pending"
    /\ wpc = "none"
    /\ cycles = 0
    /\ watchLog = <<>>

\* part_001:36-42  runStatus without --watch: printStatus is entered
PrintStatusEnter ==
    /\ stPc = "idle"
    /\ wpc = "none"
    /\ stPc' = "probe"
    /\ UNCHANGED <<trace, sysInfo, healthErr, listResult, webStatus, sample,
                   report, statusRet>>
    /\ UNCHANGED watchVars
    /\ UNCHANGED nonStatusVars

\* part_001:62-88  the header, the hardware probe and the system section
PrintStatusProbe ==
    /\ stPc = "probe"
    /\ \E e \in StatusEnvs :
        LET i == GetSystemInfo(e) IN
        /\ sysInfo' = i
        /\ report' = report \o SystemLines(i) \o ContainerLines
    /\ trace' = Append(trace, "GetSystemInfo")
    /\ stPc' = "health"
    /\ UNCHANGED <<healthErr, listResult, webStatus, sample, statusRet>>
    /\ UNCHANGED watchVars
    /\ UNCHANGED nonStatusVars

\* a status command that lists the models whatever Health returned
AfterHealthAlwaysList(err) == "models"

\* part_001:96-103  ListModels is called in the else branch of the test of
\* Health's error, the web section follows otherwise
AfterHealth(err) == IF err # RetNil THEN "web" ELSE "models"

\* part_001:91-101  Health
PrintStatusHealth ==
    /\ stPc = "health"
    /\ \E o \in HealthOutcomes :
        LET err == HealthResult(o) IN
        /\ healthErr' = err
        /\ report' = report \o HealthLines(err)
        /\ stPc' = AfterHealth(err)
    /\ trace' = Append(trace, "Health")
    /\ UNCHANGED <<sysInfo, listResult, webStatus, sample, statusRet>>
    /\ UNCHANGED watchVars
    /\ UNCHANGED nonStatusVars

\* part_001:103-112  ListModels
PrintStatusListModels ==
    /\ stPc = "models"
    /\ \E o \in ListModelsOutcomes :
        LET r == ListModelsResult(o) IN
        /\ listResult' = r
        /\ report' = report \o ModelLines(r)
    /\ trace' = Append(trace, "ListModels")
    /\ stPc' = "web"
    /\ UNCHANGED <<sysInfo, healthErr, webStatus, sample, statusRet>>
    /\ UNCHANGED watchVars
    /\ UNCHANGED nonStatusVars

\* part_001:117-131  the two calls of checkWebInterface
PrintStatusWeb ==
    /\ stPc = "web"
    /\ \E o1 \in WebOutcomes, o2 \in WebOutcomes :
        LET webUIStatus == checkWebInterface(o1)
            customWebStatus == checkWebInterface(o2) IN
        /\ webStatus' = <<webUIStatus, customWebStatus>>
        /\ report' = report \o WebLines(webUIStatus, customWebStatus)
    /\ trace' = trace \o <<"checkWebInterface", "checkWebInterface">>
    /\ stPc' = "metrics"
    /\ UNCHANGED <<sysInfo, healthErr, listResult, sample, statusRet>>
    /\ UNCHANGED watchVars
    /\ UNCHANGED nonStatusVars

\* part_001:134-150  the metrics sampler, its section, and return nil
PrintStatusMetrics ==
    /\ stPc = "metrics"
    /\ \E f \in StatusFiles :
        LET m == GetPerformanceMetrics(f).sample IN
        /\ sample' = m
        /\ report' = report \o MetricsLines(m)
    /\ trace' = Append(trace, "GetPerformanceMetrics")
    /\ statusRet' = "nil"
    /\ stPc' = "returned"
    /\ UNCHANGED <<sysInfo, healthErr, listResult, webStatus>>
    /\ UNCHANGED watchVars
    /\ UNCHANGED nonStatusVars

\* what printStatus holds before it has run
FreshStatus ==
    /\ trace' = <<>>
    /\ sysInfo' = ZeroInfo
    /\ healthErr' = Pending
    /\ listResult' = NoListResult
    /\ webStatus' = <<FALSE, FALSE>>
    /\ sample' = [NewMetrics EXCEPT !.isNil = TRUE]
    /\ report' = <<>>
    /\ statusRet' = "pending"

\* a loop that calls printStatus again as soon as it has returned
AfterCycleNoSleep(err) == "top"

\* part_001:52-56  after printStatus returned, whatever it returned, the loop
\* goes on to time.Sleep
AfterCycle(err) == "sleep"

\* part_001:36-38, 44-45  runStatus with --watch: runStatusWatch is entered
RunStatusWatch ==
    /\ stPc = "idle"
    /\ wpc = "none"
    /\ wpc' = "top"
    /\ watchLog' = Append(watchLog, "Watching status")
    /\ UNCHANGED <<stPc, trace, sysInfo, healthErr, listResult, webStatus,
                   sample, report, statusRet, cycles>>
    /\ UNCHANGED nonStatusVars

\* part_001:47-52  the top of the loop: the screen is cleared and printStatus
\* is called
WatchCycleStart ==
    /\ wpc = "top"
    /\ wpc' = "cycle"
    /\ stPc' = "probe"
    /\ FreshStatus
    /\ cycles' = IF cycles < MaxCycles THEN cycles + 1 ELSE cycles
    /\ watchLog' = <<"clear screen">>
    /\ UNCHANGED nonStatusVars

\* part_001:52-54  printStatus has returned: an error is logged, and the
\* loop goes on
WatchCycleReturn ==
    /\ wpc = "cycle"
    /\ stPc = "returned"
    /\ watchLog' = IF statusRet # "nil"
                   THEN Append(watchLog, "Error getting status")
                   ELSE watchLog
    /\ wpc' = AfterCycle(statusRet)
    /\ stPc' = "idle"
    /\ UNCHANGED <<trace, sysInfo, healthErr, listResult, webStatus, sample,
                   report, statusRet, cycles>>
    /\ UNCHANGED nonStatusVars

\* part_001:56  time.Sleep returns after the interval
WatchSleep ==
    /\ wpc = "sleep"
    /\ wpc' = "top"
    /\ UNCHANGED <<stPc, trace, sysInfo, healthErr, listResult, webStatus,
                   sample, report, statusRet, cycles, watchLog>>
    /\ UNCHANGED nonStatusVars

\* ---------------------------------------------------------------- Init
InitClient ==
    /\ op = "none"
    /\ pc = "idle"
    /\ cancelled = FALSE
    /\ hasSink = FALSE
    /\ reqs = <<>>
    /\ statusCode = 0
    /\ body = <<>>
    /\ pos = 0
    /\ delivered = <<>>
    /\ closeCount = 0
    /\ ret = Pending
    /\ exit = "none"
    /\ cmd = "none"
    /\ cmdRet = "pending"
    /\ log = <<>>
    /\ pullIdx = 0
    /\ pulls = <<>>

InitClientRun ==
    InitClient /\ InitCheckerIdle /\ InitMonitorIdle /\ InitStatusIdle

\* ------------------------------------------------------------ client actions
\* A caller invokes one operation of the client directly.
Call ==
    /\ UNCHANGED nonClientVars
    /\ pc = "idle"
    /\ \E o \in Ops, s \in BOOLEAN :
        /\ op' = o
        /\ hasSink' = (s /\ o = "PullModel")
    /\ pc' = "request"
    /\ cmd' = "api"
    /\ UNCHANGED <<cancelled, reqs, statusCode, body, pos, delivered,
                   closeCount, ret, exit, cmdRet, log>>

\* part_002:82-94  runDownloadModel calls PullModel with a logging callback
RunDownloadModelCall ==
    /\ UNCHANGED nonClientVars
    /\ pc = "idle"
    /\ op' = "PullModel"
    /\ hasSink' = TRUE
    /\ pc' = "request"
    /\ cmd' = "runDownloadModel"
    /\ log' = Append(log, "Downloading model")
    /\ UNCHANGED <<cancelled, reqs, statusCode, body, pos, delivered,
                   closeCount, ret, exit, cmdRet>>

\* The caller cancels the context (or the client's 300 s Timeout expires)
\* while the operation is blocked in I/O.
Cancel ==
    /\ UNCHANGED nonClientVars
    /\ pc \in {"request", "body"}
    /\ ~cancelled
    /\ cancelled' = TRUE
    /\ UNCHANGED <<op, pc, hasSink, reqs, statusCode, body, pos, delivered,
                   closeCount, ret, exit, cmd, cmdRet, log>>

\* client.go:184-211  httpClient.Do fails: the error is returned as it is
\* (a cancelled context always fails the request).
DoFails ==
    /\ UNCHANGED nonClientVars
    /\ pc = "request"
    /\ reqs' = Append(reqs, Request(op))
    /\ \E cause \in (IF cancelled THEN {"ctx"} ELSE {"transport"}) :
        ret' = ErrDo(cause)
    /\ exit' = "transport"
    /\ pc' = "done"
    /\ UNCHANGED <<op, cancelled, hasSink, statusCode, body, pos, delivered,
                   closeCount, cmd, cmdRet, log>>

\* client.go:170-182, 122-141  Health and DeleteModel: the request, then the
\* status check, with the body closed on return.
DoStatusOp ==
    /\ UNCHANGED nonClientVars
    /\ pc = "request"
    /\ op \in {"Health", "DeleteModel"}
    /\ ~cancelled
    /\ reqs' = Append(reqs, Request(op))
    /\ \E code \in StatusCodes, b \in Bodies :
        /\ statusCode' = code
        /\ body' = b
        /\ IF ~StatusOK(code)
           THEN ret' = ErrStatus /\ exit' = "status"
           ELSE ret' = RetNil /\ exit' = "ok"
    /\ closeCount' = closeCount + DeferredClose("status")
    /\ pc' = "done"
    /\ UNCHANGED <<op, cancelled, hasSink, pos, delivered, cmd, cmdRet, log>>

\* client.go:68, 93, 156  the request of ListModels, PullModel and Generate
\* returns a response, whose body is read next.
DoBodyOp ==
    /\ UNCHANGED nonClientVars
    /\ pc = "request"
    /\ op \in {"ListModels", "PullModel", "Generate"}
    /\ ~cancelled
    /\ reqs' = Append(reqs, Request(op))
    /\ \E code \in StatusCodes, b \in Bodies :
        /\ statusCode' = code
        /\ body' = b
    /\ pc' = "body"
    /\ UNCHANGED <<op, cancelled, hasSink, pos, delivered, closeCount, ret,
                   exit, cmd, cmdRet, log>>

\* client.go:74-79, 162-167  ListModels and Generate decode one value.
DecodeOne ==
    /\ UNCHANGED nonClientVars
    /\ pc = "body"
    /\ op \in {"ListModels", "Generate"}
    /\ \E buffered \in BOOLEAN :
        LET r == Decode(body, pos, cancelled /\ ~buffered) IN
        IF r.tag = "value"
        THEN /\ pos' = pos + 1
             /\ ret' = RetNil
             /\ exit' = "ok"
        ELSE /\ pos' = pos
             /\ ret' = ErrDecode(r.tag)
             /\ exit' = "decode"
    /\ closeCount' = closeCount + DeferredClose("decode")
    /\ pc' = "done"
    /\ UNCHANGED <<op, cancelled, hasSink, reqs, statusCode, body, delivered,
                   cmd, cmdRet, log>>

\* client.go:100-119  one iteration of PullModel's read loop: decode the next
\* element, hand it to the callback, stop on "success"; the returns run the
\* deferred Close.
PullIterate ==
    /\ UNCHANGED nonClientVars
    /\ pc = "body"
    /\ op = "PullModel"
    /\ \E buffered \in BOOLEAN :
        LET r == Decode(body, pos, cancelled /\ ~buffered) IN
        IF r.tag = "value"
        THEN /\ pos' = pos + 1
             /\ delivered' = Deliver(hasSink, delivered, r.value)
             /\ IF IsSuccess(r.value)
                THEN /\ ret' = RetNil
                     /\ exit' = "success"
                     /\ closeCount' = closeCount + DeferredClose("success")
                     /\ pc' = "done"
                ELSE UNCHANGED <<ret, exit, closeCount, pc>>
        ELSE /\ ret' = PullDecodeFailure(r.tag)
             /\ exit' = (IF r.tag = "eof" THEN "eof" ELSE "decode")
             /\ closeCount' = closeCount + DeferredClose(r.tag)
             /\ pc' = "done"
             /\ UNCHANGED <<pos, delivered>>
    /\ UNCHANGED <<op, cancelled, hasSink, reqs, statusCode, body, cmd,
                   cmdRet, log>>

\* part_002:96-101  runDownloadModel after PullModel returned
RunDownloadModelReturn ==
    /\ UNCHANGED nonClientVars
    /\ pc = "done"
    /\ cmd = "runDownloadModel"
    /\ cmdRet = "pending"
    /\ IF ret.kind # "nil"
       THEN /\ cmdRet' = "error"
            /\ log' = log
       ELSE /\ cmdRet' = "nil"
            /\ log' = Append(log, "Successfully downloaded model")
    /\ UNCHANGED <<op, pc, cancelled, hasSink, reqs, statusCode, body, pos,
                   delivered, closeCount, ret, exit, cmd>>

\* ------------------------------------------------- runDownloadRecommended
\* part_002:120-124  recommendedModels
RecommendedModels ==
    <<"llama3.1:8b-instruct-q4_K_M", "mistral:7b-instruct-q4_K_M",
      "gemma2:2b-instruct-q4_K_M">>

\* a loop that gives up at the first pull that fails
AfterPullStopOnError(kind, idx) ==
    IF kind # "nil" \/ idx >= Len(RecommendedModels) THEN "end" ELSE "loop"

\* part_002:130, 139-145  after a pull the range loop goes on with the next
\* model, whether the pull failed (continue) or not, and ends after the last
AfterPull(kind, idx) == IF idx < Len(RecommendedModels) THEN "loop" ELSE "end"

\* part_002:118-128  runDownloadRecommended is entered
RecommendedStart ==
    /\ pc = "idle"
    /\ cmd = "none"
    /\ cmd' = "runDownloadRecommended"
    /\ log' = Append(log, "Downloading recommended models for AMD RX 570/580...")
    /\ pc' = AfterPull("nil", 0)
    /\ UNCHANGED <<op, cancelled, hasSink, reqs, statusCode, body, pos,
                   delivered, closeCount, ret, exit, cmdRet, pullIdx, pulls>>
    /\ UNCHANGED nonCommandVars

\* part_002:130-138  the next model: PullModel is called with a callback (the
\* events carry no byte counts, so the callback logs nothing)
RecommendedPull ==
    /\ cmd = "runDownloadRecommended"
    /\ pc = "loop"
    /\ pullIdx' = pullIdx + 1
    /\ log' = Append(log, "Downloading " \o RecommendedModels[pullIdx + 1] \o "...")
    /\ op' = "PullModel"
    /\ hasSink' = TRUE
    /\ pc' = "request"
    /\ cancelled' = FALSE
    /\ reqs' = <<>>
    /\ statusCode' = 0
    /\ body' = <<>>
    /\ pos' = 0
    /\ delivered' = <<>>
    /\ closeCount' = 0
    /\ ret' = Pending
    /\ exit' = "none"
    /\ UNCHANGED <<cmd, cmdRet, pulls>>
    /\ UNCHANGED nonCommandVars

\* part_002:139-145  PullModel has returned: the failure or the success is
\* logged
RecommendedPullReturn ==
    /\ cmd = "runDownloadRecommended"
    /\ pc = "done"
    /\ pulls' = Append(pulls, [model |-> RecommendedModels[pullIdx],
                               err |-> ret.kind])
    /\ log' = Append(log,
                     IF ret.kind # "nil"
                     THEN "Failed to download " \o RecommendedModels[pullIdx]
                          \o ": " \o ret.kind
                     ELSE "Successfully downloaded " \o RecommendedModels[pullIdx])
    /\ pc' = AfterPull(ret.kind, pullIdx)
    /\ UNCHANGED <<op, cancelled, hasSink, reqs, statusCode, body, pos,
                   delivered, closeCount, ret, exit, cmd, cmdRet, pullIdx>>
    /\ UNCHANGED nonCommandVars

\* part_002:148-151  the closing lines and return nil
RecommendedFinish ==
    /\ cmd = "runDownloadRecommended"
    /\ pc = "end"
    /\ log' = log \o <<"Recommended models download complete!",
                       "You can now use these models via the web interface at http://localhost:3000">>
    /\ cmdRet' = "nil"
    /\ pc' = "returned"
    /\ UNCHANGED <<op, cancelled, hasSink, reqs, statusCode, body, pos,
                   delivered, closeCount, ret, exit, cmd, pullIdx, pulls>>
    /\ UNCHANGED nonCommandVars

NextClient ==
    \/ Call
    \/ RunDownloadModelCall
    \/ Cancel
    \/ DoFails
    \/ DoStatusOp
    \/ DoBodyOp
    \/ DecodeOne
    \/ PullIterate
    \/ RunDownloadModelReturn

SpecClient == InitClientRun /\ [][NextClient]_vars

NextProbe ==
    \/ GetSystemInfoRun
    \/ ValidateRun

InitProbe ==
    InitCheckerIdle /\ InitClient /\ InitMonitorIdle /\ InitStatusIdle

SpecProbe == InitProbe /\ [][NextProbe]_vars

NextValidate == ValidateRun

InitValidate ==
    InitGiven /\ InitClient /\ InitMonitorIdle /\ InitStatusIdle

SpecValidate == InitValidate /\ [][NextValidate]_vars

NextMetrics == GetPerformanceMetricsRun

InitMetrics ==
    InitMonitorIdle /\ InitClient /\ InitCheckerIdle /\ InitStatusIdle

SpecMetrics == InitMetrics /\ [][NextMetrics]_vars

NextStatus ==
    \/ PrintStatusEnter
    \/ PrintStatusProbe
    \/ PrintStatusHealth
    \/ PrintStatusListModels
    \/ PrintStatusWeb
    \/ PrintStatusMetrics

InitStatus ==
    InitStatusIdle /\ InitClient /\ InitCheckerIdle /\ InitMonitorIdle

SpecStatus == InitStatus /\ [][NextStatus]_vars

\* runStatus with --watch; every step of the loop ends (the requests have
\* timeouts, the sleep is finite), so the loop keeps taking steps
NextWatch ==
    \/ RunStatusWatch
    \/ WatchCycleStart
    \/ PrintStatusProbe
    \/ PrintStatusHealth
    \/ PrintStatusListModels
    \/ PrintStatusWeb
    \/ PrintStatusMetrics
    \/ WatchCycleReturn
    \/ WatchSleep

InitWatch ==
    InitStatusIdle /\ InitClient /\ InitCheckerIdle /\ InitMonitorIdle

SpecWatch == InitWatch /\ [][NextWatch]_vars /\ WF_vars(NextWatch)

NextRecommended ==
    \/ RecommendedStart
    \/ RecommendedPull
    \/ Cancel
    \/ DoFails
    \/ DoBodyOp
    \/ PullIterate
    \/ RecommendedPullReturn
    \/ RecommendedFinish

InitRecommended ==
    InitClient /\ InitCheckerIdle /\ InitMonitorIdle /\ InitStatusIdle

SpecRecommended == InitRecommended /\ [][NextRecommended]_vars

\* ------------------------------------------------------ claims on PullModel
Prefix(b, n) == SubSeq(b, 1, n)
NoSuccess(b) == \A i \in 1..Len(b) : b[i] # "success"
NoMalformed(b) == \A i \in 1..Len(b) : b[i] # Malformed
GotResponse == statusCode # 0

\* C1: the first event of status "success" is the last one decoded and
\* delivered: no element after a success event is ever decoded, and once the
\* success event is decoded PullModel has returned nil with the sink (when
\* there is one) holding exactly the events up to and including it.
C1_SuccessHalts ==
    op = "PullModel" =>
        /\ \A i \in 1..pos : body[i] = "success" => i = pos
        /\ (pos > 0 /\ body[pos] = "success") =>
               /\ pc = "done"
               /\ ret = RetNil
               /\ hasSink => /\ delivered = Prefix(body, pos)
                             /\ delivered[Len(delivered)] = "success"

\* a pull that stopped at a success event with further events behind it
C1_Witness ==
    /\ op = "PullModel" /\ pc = "done" /\ hasSink
    /\ pos > 0 /\ pos < Len(body)
    /\ body[pos] = "success"
    /\ ret = RetNil

\* C2: push protocol: in every state, and so whenever the next element is
\* about to be read, the sink has received exactly the decoded events, each
\* once and in stream order (delivered count = decoded count).
C2_PushInOrder ==
    (op = "PullModel" /\ hasSink) =>
        /\ Len(delivered) = pos
        /\ delivered = Prefix(body, pos)

\* two events delivered and the loop about to read the third
C2_Witness ==
    /\ op = "PullModel" /\ hasSink /\ pc = "body"
    /\ pos = 2 /\ Len(delivered) = 2 /\ Len(body) > 2

\* C3: a malformed element is never decoded past nor delivered; when the read
\* loop meets one (and the read is not failed by cancellation first),
\* PullModel has returned a DecodeError and the sink holds exactly the events
\* before the malformed element.
C3_DecodeErrorAborts ==
    op = "PullModel" =>
        /\ \A i \in 1..pos : body[i] # Malformed
        /\ \A i \in 1..Len(delivered) : delivered[i] # Malformed
        /\ (/\ pc = "done" /\ exit # "success" /\ ret.cause # "ctx"
            /\ pos < Len(body) /\ body[pos + 1] = Malformed) =>
               /\ ret = ErrDecode("syntax")
               /\ hasSink => delivered = Prefix(body, pos)

\* a DecodeError with events before and after the malformed element
C3_Witness ==
    /\ op = "PullModel" /\ pc = "done" /\ hasSink
    /\ ret = ErrDecode("syntax")
    /\ pos >= 1 /\ pos + 1 < Len(body)
    /\ Len(delivered) = pos

\* C4: a response whose stream ends without a success event (and without a
\* malformed element or a read failed by cancellation) is a clean end: every
\* event is delivered, PullModel returns nil through the end-of-stream break,
\* and runDownloadModel reports the download as successful, as it does after
\* a success event.
C4_TruncatedIsClean ==
    (/\ op = "PullModel" /\ pc = "done" /\ GotResponse
     /\ NoSuccess(body) /\ NoMalformed(body) /\ ret.cause # "ctx") =>
        /\ ret = RetNil
        /\ exit = "eof"
        /\ pos = Len(body)
        /\ hasSink => delivered = body
        /\ (cmd = "runDownloadModel" /\ cmdRet # "pending") =>
               /\ cmdRet = "nil"
               /\ log[Len(log)] = "Successfully downloaded model"

\* runDownloadModel reported success for a stream of two events, none of
\* them the success event
C4_Witness ==
    /\ op = "PullModel" /\ pc = "done" /\ exit = "eof"
    /\ Len(body) >= 2 /\ NoSuccess(body)
    /\ delivered = body
    /\ cmd = "runDownloadModel" /\ cmdRet = "nil"

\* C5: the response body of PullModel is closed exactly once, at the return:
\* never before it, never twice, and on every return that follows a response
\* (success event, end of stream, decode error, cancellation); a call whose
\* request failed has no body to close.
C5_BodyClosedOnce ==
    op = "PullModel" =>
        /\ closeCount <= 1
        /\ pc # "done" => closeCount = 0
        /\ pc = "done" => closeCount = (IF GotResponse THEN 1 ELSE 0)

\* a pull ended by cancellation in the middle of the stream, body closed
C5_Witness ==
    /\ op = "PullModel" /\ pc = "done"
    /\ cancelled /\ ret.cause = "ctx" /\ exit = "decode"
    /\ pos >= 1
    /\ closeCount = 1

\* C6: every client operation whose context is cancelled before it finishes
\* returns an error of the Unreachable kind.
C6_CancelIsUnreachable ==
    (pc = "done" /\ cancelled) => ret.kind = "Unreachable"

\* --------------------------------------------- claims on validateRequirements
Violated(i) ==
    << ~i.HasDocker,
       ~i.HasNVIDIA /\ ~i.HasAMDGPU,
       i.GPUMemory < 6144,
       i.SystemMemory < 8192 >>

\* C7: validateRequirements returns an error exactly when the runtime is
\* absent, no GPU vendor was detected, or a memory floor is violated; the
\* error is the same whatever HasROCm and the container-passthrough test
\* are: those two only add warnings.
C7_ErrorIffViolation ==
    pcChk = "validated" =>
        /\ (verr.err # <<>>) <=> (\E k \in 1..4 : Violated(info)[k])
        /\ \A r \in BOOLEAN, tk \in BOOLEAN :
               validateRequirements([info EXCEPT !.HasROCm = r], tk).err = verr.err

\* an AMD profile without ROCm that meets every requirement: warned, no error
C7_Witness ==
    /\ pcChk = "validated"
    /\ info.GPUType = "amd" /\ info.HasAMDGPU /\ ~info.HasROCm
    /\ info.HasDocker /\ info.GPUMemory >= 6144 /\ info.SystemMemory >= 8192
    /\ verr.err = <<>>
    /\ verr.warns # <<>>

C8_Entry(i, k) ==
    CASE k = 1 -> "  - Docker is not installed or not accessible"
      [] k = 2 -> "  - No supported GPU detected (NVIDIA or AMD)"
      [] k = 3 -> "  - GPU memory (" \o ToString(i.GPUMemory)
                  \o "MB) is below recommended minimum (6GB)"
      [] k = 4 -> "  - System memory (" \o ToString(i.SystemMemory)
                  \o "MB) is below recommended minimum (8GB)"

C8_Example(i) ==
    /\ i.GPUMemory = 4096 /\ i.SystemMemory = 4096
    /\ ~i.HasDocker /\ i.GPUType = "unknown"
    /\ ~i.HasNVIDIA /\ ~i.HasAMDGPU

\* C8: after its header line, the error has one line per violated condition
\* and no other line, in the order runtime, vendor, GPU-memory floor,
\* system-memory floor, for every subset of violations; the example profile
\* gives the four entries in that order.
C8_EntriesInOrder ==
    pcChk = "validated" =>
        LET which == SelectSeq(<<1, 2, 3, 4>>, LAMBDA k : Violated(info)[k]) IN
        /\ which = <<>> => verr.err = <<>>
        /\ which # <<>> =>
               /\ Len(verr.err) = 1 + Len(which)
               /\ verr.err[1] = "system requirements not met:"
               /\ \A n \in 1..Len(which) :
                      verr.err[n + 1] = C8_Entry(info, which[n])
        /\ C8_Example(info) =>
               verr.err = << "system requirements not met:",
                             "  - Docker is not installed or not accessible",
                             "  - No supported GPU detected (NVIDIA or AMD)",
                             "  - GPU memory (4096MB) is below recommended minimum (6GB)",
                             "  - System memory (4096MB) is below recommended minimum (8GB)" >>

\* the example profile, validated: four entries
C8_Witness ==
    /\ pcChk = "validated"
    /\ C8_Example(info)
    /\ Len(verr.err) = 5

\* ------------------------------------------------- claims on GetSystemInfo
Probed == pcChk \in {"probed", "validated"}

SmiFailed(e) ==
    ConsultsSMI(e) /\ (~e.smi.ok \/ ~Atoi(TrimSpace(e.smi.text)).ok)

\* no card<N> directory with a readable, parsable mem_info_vram_total
NoCardMemory(e) ==
    \A k \in 1..Len(e.drm.entries) :
        LET d == e.drm.entries[k] IN
        ~(IsCardDir(d.name) /\ d.vram.ok /\ Atoi(TrimSpace(d.vram.text)).ok)

DrmFailed(e) == ConsultsDRM(e) /\ (~e.drm.listOk \/ NoCardMemory(e))

RocmFailed(e) ==
    \/ e.rocm.stat[1] /\ ~e.rocm.run[1]
    \/ ~e.rocm.stat[1] /\ e.rocm.stat[2] /\ ~e.rocm.run[2]
    \/ ~e.rocm.stat[1] /\ ~e.rocm.stat[2] /\ ~e.rocm.lsmodOk

\* /proc/meminfo cannot be opened or has no MemTotal line with a number
MeminfoFailed(e) ==
    \/ ~e.meminfo.ok
    \/ \A k \in 1..Len(e.meminfo.lines) :
           LET fields == e.meminfo.lines[k] IN
           ~(Len(fields) >= 2 /\ fields[1] = "MemTotal:"
             /\ Atoi(<<fields[2]>>).ok)

InfoFields ==
    {"HasDocker", "HasROCm", "HasNVIDIA", "HasAMDGPU", "GPUMemory",
     "SystemMemory", "GPUModel", "GPUType", "KernelVersion"}
GPUFields == {"HasNVIDIA", "HasAMDGPU", "GPUMemory", "GPUModel", "GPUType"}

\* the fields of `own` apart, the profile is the one of environment e
SameBut(e, own) ==
    LET other == GetSystemInfo(e) IN
    \A f \in InfoFields \ own : other[f] = info[f]

\* failing one more sub-check changes the fields of that sub-check only
FailureIsLocal ==
    /\ SameBut([env EXCEPT !.docker = FALSE], {"HasDocker"})
    /\ SameBut([env EXCEPT !.lspci1 = FALSE, !.lspci2 = FALSE], GPUFields)
    /\ SameBut([env EXCEPT !.smi = [ok |-> FALSE, text |-> <<>>]], {"GPUMemory"})
    /\ SameBut([env EXCEPT !.drm = NoDrm], {"GPUMemory"})
    /\ SameBut([env EXCEPT !.rocm.stat = <<FALSE, FALSE>>, !.rocm.lsmodOk = FALSE],
               {"HasROCm"})
    /\ SameBut([env EXCEPT !.meminfo.ok = FALSE], {"SystemMemory"})
    /\ SameBut([env EXCEPT !.uname.ok = FALSE], {"KernelVersion"})

\* the fields left by the failed sub-checks other than nvidia-smi and sysfs
FailedFieldsNeutral ==
    /\ probeErr = "nil"
    /\ ~env.docker => ~info.HasDocker
    /\ ~env.lspci1 => ~info.HasNVIDIA
    /\ ~env.lspci2 => ~info.HasAMDGPU
    /\ (~env.lspci1 /\ ~env.lspci2) =>
           /\ info.GPUType = "unknown"
           /\ info.GPUModel = <<>>
           /\ info.GPUMemory = 0
    /\ RocmFailed(env) => ~info.HasROCm
    /\ MeminfoFailed(env) => info.SystemMemory = 0
    /\ ~env.uname.ok => info.KernelVersion = <<"unknown">>

\* C9 as claimed: GetSystemInfo returns a nil error and every failed
\* sub-check, nvidia-smi and sysfs included, leaves its field at the neutral
\* value (false, 0, "unknown") without changing the other fields.
C9_EveryFailureNeutral ==
    Probed =>
        /\ FailedFieldsNeutral
        /\ (SmiFailed(env) /\ info.GPUType = "nvidia") => info.GPUMemory = 0
        /\ (DrmFailed(env) /\ info.GPUType = "amd") => info.GPUMemory = 0
        /\ FailureIsLocal

\* C9 (amended): GetSystemInfo returns a nil error; a failed docker, lspci,
\* rocminfo/lsmod, /proc/meminfo or uname sub-check leaves its field at the
\* neutral value without changing the other fields; a failed nvidia-smi
\* leaves the GPU memory of a detected NVIDIA GPU at the default 8192 MB, and
\* a failed sysfs lookup leaves that of a detected AMD GPU at 0 when the DRM
\* directory cannot be listed and at the default 8192 MB otherwise.
C9_ProbeNeverFails ==
    Probed =>
        /\ FailedFieldsNeutral
        /\ (SmiFailed(env) /\ info.GPUType = "nvidia") => info.GPUMemory = 8192
        /\ (DrmFailed(env) /\ info.GPUType = "amd") =>
               info.GPUMemory = (IF env.drm.listOk THEN 8192 ELSE 0)
        /\ FailureIsLocal

\* docker, nvidia-smi, /proc/meminfo and uname all fail for a detected
\* NVIDIA GPU: a profile is returned all the same
C9_Witness ==
    /\ pcChk = "probed" /\ probeErr = "nil"
    /\ ~env.docker /\ ~env.meminfo.ok /\ ~env.uname.ok
    /\ SmiFailed(env) /\ ~env.smi.ok
    /\ info.GPUType = "nvidia"
    /\ info.GPUMemory = 8192
    /\ info.KernelVersion = <<"unknown">>

\* the first line of the output that is a VGA line of the vendor
FirstVendorLine(lines, names, products) ==
    LET hits == {k \in 1..Len(lines) : IsVendorLine(lines[k], names, products)} IN
    IF hits = {} THEN 0 ELSE CHOOSE k \in hits : \A h \in hits : k <= h

\* C10: a matching NVIDIA VGA line in the output of the NVIDIA check makes
\* the profile "nvidia" with the model of that line and the memory of the
\* NVIDIA check, whether or not an AMD line matches; "amd" is reported exactly
\* when an AMD line matches and no NVIDIA line does, with the AMD model and
\* memory; "unknown" exactly when neither matches.
C10_VendorPriority ==
    Probed =>
        LET nvAt == IF env.lspci1
                    THEN FirstVendorLine(env.pci, NvidiaNames, NvidiaProducts)
                    ELSE 0
            amdAt == IF env.lspci2
                     THEN FirstVendorLine(env.pci, AmdNames, AmdProducts)
                     ELSE 0
        IN
        /\ nvAt > 0 =>
               /\ info.GPUType = "nvidia"
               /\ info.GPUModel = ModelOf(env.pci[nvAt])
               /\ info.GPUMemory = checkNVIDIAGPU(env).memory
        /\ info.GPUType = "amd" <=> (amdAt > 0 /\ nvAt = 0)
        /\ info.GPUType = "amd" =>
               /\ info.GPUModel = ModelOf(env.pci[amdAt])
               /\ info.GPUMemory = checkAMDGPU(env).memory
        /\ info.GPUType = "unknown" <=> (amdAt = 0 /\ nvAt = 0)
        /\ info.GPUType \in {"nvidia", "amd", "unknown"}

\* both vendors' VGA lines match, with different models and memories
C10_Witness ==
    /\ pcChk = "probed"
    /\ env.lspci1 /\ env.lspci2
    /\ FirstVendorLine(env.pci, NvidiaNames, NvidiaProducts) > 0
    /\ FirstVendorLine(env.pci, AmdNames, AmdProducts) > 0
    /\ info.GPUType = "nvidia"
    /\ checkAMDGPU(env).model # info.GPUModel
    /\ checkAMDGPU(env).memory # info.GPUMemory


\* --------------------------------------------------- claims on the GPU model
\* the text of a line after its first ": "
AfterFirstSep(line) ==
    LET hits == {k \in 1..Len(line) : line[k] = Sep} IN
    IF hits = {} THEN <<>>
    ELSE LET first == CHOOSE k \in hits : \A h \in hits : k <= h
         IN SubSeq(line, first + 1, Len(line))

\* the lines of an output that are a VGA line of a recognized vendor
VendorLinesAt(lines) ==
    {k \in 1..Len(lines) :
        \/ IsVendorLine(lines[k], NvidiaNames, NvidiaProducts)
        \/ IsVendorLine(lines[k], AmdNames, AmdProducts)}

\* C11: when the PCI output (obtained by both checks) has exactly one VGA
\* line of a recognized vendor, the profile has that vendor and its model is
\* the whole text after the first ": " of that line, further ": " included.
C11_ModelIsTextAfterFirstSep ==
    (/\ Probed /\ env.lspci1 /\ env.lspci2
     /\ Cardinality(VendorLinesAt(env.pci)) = 1) =>
        LET line == env.pci[CHOOSE k \in VendorLinesAt(env.pci) : TRUE] IN
        /\ info.GPUType = (IF IsVendorLine(line, NvidiaNames, NvidiaProducts)
                           THEN "nvidia" ELSE "amd")
        /\ info.GPUModel = TrimSpace(AfterFirstSep(line))


\* ------------------------------------------------ claims on the GPU sample
Sampled == mpc = "done"

\* the VRAM-total file is absent, does not parse, or reads zero
VramTotalUnusable(f) ==
    \/ ~f.vramTotal.ok
    \/ ~Atoi(TrimSpace(f.vramTotal.data)).ok
    \/ Atoi(TrimSpace(f.vramTotal.data)).val = 0

\* C12: when the VRAM-total file is absent, unparsable or zero, the sample
\* has GPUUsage -1 and GPUMemoryUsedMB = GPUMemoryTotalMB = 0, whatever the
\* busy-percent files and the VRAM-used file contain.
C12_GPUMemorySentinel ==
    (Sampled /\ VramTotalUnusable(files)) =>
        /\ metrics.GPUUsage = Float(-1)
        /\ metrics.GPUMemoryUsedMB = 0
        /\ metrics.GPUMemoryTotalMB = 0

\* the total is unusable while the other GPU files hold readable values
C12_Witness ==
    /\ Sampled
    /\ VramTotalUnusable(files)
    /\ files.busy1 = FileOf("37")
    /\ files.vramUsed = FileOf("4194304")
    /\ metrics.GPUUsage = Float(-1)

\* C13: when the VRAM-total file is readable and positive and neither
\* busy-percent file is readable, the sample has GPUUsage -1 and still has
\* GPUMemoryTotalMB and GPUMemoryUsedMB, the VRAM values converted to MB.
C13_MemoryWithoutUsage ==
    (/\ Sampled
     /\ ~VramTotalUnusable(files)
     /\ Atoi(TrimSpace(files.vramTotal.data)).val > 0
     /\ ~files.busy1.ok /\ ~files.busy2.ok) =>
        /\ metrics.GPUUsage = Float(-1)
        /\ metrics.GPUMemoryTotalMB =
               Atoi(TrimSpace(files.vramTotal.data)).val \div (1024 * 1024)
        /\ metrics.GPUMemoryUsedMB =
               IF files.vramUsed.ok
               THEN Atoi(TrimSpace(files.vramUsed.data)).val \div (1024 * 1024)
               ELSE 0


\* ------------------------------------------- claims on the whole sample
\* a read of /proc/stat failed: the file did not open, or its first line
\* could not be read
CPUReadFailed(f) == ~f.stat.open \/ (f.stat.readErr /\ f.stat.lines = <<>>)

\* a read of /proc/meminfo failed
MemReadFailed(f) == ~f.meminfo.open \/ f.meminfo.readErr

\* the reads the GPU usage depends on failed
GPUReadFailed(f) == ~f.vramTotal.ok \/ (~f.busy1.ok /\ ~f.busy2.ok)

HasWarning(format) == \E k \in 1..Len(mlog) : mlog[k].format = format

\* C14: GetPerformanceMetrics returns a non-nil sample whatever reads fail;
\* a failed sub-metric has its fields at 0 (CPU, memory) or -1 (GPU), every
\* failed CPU or memory read is logged as a warning, and a sub-metric that
\* did not fail has the fields it has when the other reads all succeed.
C14_SamplerNeverFails ==
    Sampled =>
        /\ ~metrics.isNil
        /\ CPUReadFailed(files) =>
              /\ metrics.CPUUsage = Float(0)
              /\ HasWarning("Failed to get CPU usage: %v")
        /\ MemReadFailed(files) =>
              /\ metrics.MemoryUsedMB = 0 /\ metrics.MemoryTotalMB = 0
              /\ metrics.MemoryUsagePercent = Float(0)
              /\ HasWarning("Failed to get memory usage: %v")
        /\ GPUReadFailed(files) => metrics.GPUUsage = Float(-1)
        /\ ~CPUReadFailed(files) =>
              metrics.CPUUsage =
                  GetPerformanceMetrics(
                      [GoodFiles EXCEPT !.stat = files.stat]).sample.CPUUsage
        /\ ~MemReadFailed(files) =>
              LET alone == GetPerformanceMetrics(
                      [GoodFiles EXCEPT !.meminfo = files.meminfo]).sample IN
              /\ metrics.MemoryUsedMB = alone.MemoryUsedMB
              /\ metrics.MemoryTotalMB = alone.MemoryTotalMB
              /\ metrics.MemoryUsagePercent = alone.MemoryUsagePercent
        /\ ~GPUReadFailed(files) =>
              LET alone == GetPerformanceMetrics(
                      [files EXCEPT !.stat = GoodFiles.stat,
                                    !.meminfo = GoodFiles.meminfo]).sample IN
              /\ metrics.GPUUsage = alone.GPUUsage
              /\ metrics.GPUMemoryUsedMB = alone.GPUMemoryUsedMB
              /\ metrics.GPUMemoryTotalMB = alone.GPUMemoryTotalMB


\* --------------------------------------------- claims on the wire contract
\* C15: Health and DeleteModel return ok exactly when the request completed
\* and the response status is 200; every other status, other 2xx included,
\* and every transport failure gives an error.
C15_OkIffStatus200 ==
    (pc = "done" /\ op \in {"Health", "DeleteModel"}) =>
        /\ (ret = RetNil) <=> (GotResponse /\ statusCode = 200)
        /\ ret # RetNil => ret.kind \in {"Unreachable", "NonSuccessStatus"}

\* a 2xx status other than 200 was answered to DeleteModel
C15_Witness ==
    /\ pc = "done"
    /\ op = "DeleteModel"
    /\ GotResponse
    /\ statusCode = 204
    /\ ret = ErrStatus

\* the request line of each operation as the contract states it
ContractRequest(o, deleteMethod) ==
    CASE o = "Health"      -> [method |-> "GET", path |-> "/api/version", stream |-> "none"]
      [] o = "ListModels"  -> [method |-> "GET", path |-> "/api/tags", stream |-> "none"]
      [] o = "PullModel"   -> [method |-> "POST", path |-> "/api/pull", stream |-> "true"]
      [] o = "DeleteModel" -> [method |-> deleteMethod, path |-> "/api/delete", stream |-> "none"]
      [] o = "Generate"    -> [method |-> "POST", path |-> "/api/generate", stream |-> "false"]

C17_Non2xxIsFailure ==
    (pc = "done" /\ GotResponse /\ statusCode \notin 200..299) =>
        /\ ret # RetNil
        /\ delivered = <<>>


\* ------------------------------------------ claims on memory and CPU usage
\* the lines of the form "MemTotal: X kB" with a decimal X
MemTotalLines(lines) ==
    {k \in 1..Len(lines) :
        LET fields == Fields(lines[k]) IN
        /\ Len(fields) = 3
        /\ fields[1] = "MemTotal:"
        /\ fields[2] \in DOMAIN NumeralValue
        /\ fields[3] = "kB"}

\* C18: when /proc/meminfo has a line "MemTotal: X kB", the sample's
\* MemoryTotalMB is floor(X / 1024), whatever the other lines are.
C18_MemTotalFloor ==
    (Sampled /\ files.meminfo.open) =>
        \A k \in MemTotalLines(files.meminfo.lines) :
            LET X == NumeralValue[Fields(files.meminfo.lines[k])[2]] IN
            /\ metrics.MemoryTotalMB * 1024 <= X
            /\ X < (metrics.MemoryTotalMB + 1) * 1024

\* X is no multiple of 1024 and the MemTotal line comes after other lines
C18_Witness ==
    /\ Sampled
    /\ files.meminfo.open
    /\ 3 \in MemTotalLines(files.meminfo.lines)
    /\ NumeralValue[Fields(files.meminfo.lines[3])[2]] = 8388000
    /\ metrics.MemoryTotalMB = 8191

\* the first line of /proc/stat is an aggregate line whose counters parse
ValidStat(stat) ==
    /\ stat.open
    /\ stat.lines # <<>>
    /\ LET fields == Fields(stat.lines[1]) IN
       /\ Len(fields) >= 8
       /\ fields[1] = "cpu"
       /\ \A i \in 2..Len(fields) : ParseUint(fields[i]).ok

\* the line with every counter multiplied by k
ScaleLine(line, k) ==
    [i \in 1..Len(line) |->
        IF ParseUint(line[i]).ok THEN ToString(ParseUint(line[i]).val * k)
        ELSE line[i]]

Components ==
    <<"GetSystemInfo", "Health", "ListModels", "GetPerformanceMetrics">>

Rank(c) == CHOOSE k \in 1..Len(Components) : Components[k] = c

\* the calls of the four components, in the order they were made
ComponentCalls ==
    SelectSeq(trace, LAMBDA c : \E k \in 1..Len(Components) : Components[k] = c)

CalledTimes(c) == Cardinality({k \in 1..Len(trace) : trace[k] = c})

\* C20: within one printStatus the components are called one after the
\* other in the order probe, Health, ListModels, metrics sampler, each at
\* most once; ListModels only after Health succeeded; the metrics sampler
\* (like the probe and Health) whatever the earlier outcomes; and printStatus
\* returns nil.
C20_SequentialStatus ==
    /\ \A j, k \in 1..Len(ComponentCalls) :
          j < k => Rank(ComponentCalls[j]) < Rank(ComponentCalls[k])
    /\ CalledTimes("ListModels") > 0 => healthErr = RetNil
    /\ statusRet \in {"pending", "nil"}
    /\ stPc = "returned" =>
          /\ statusRet = "nil"
          /\ CalledTimes("GetSystemInfo") = 1
          /\ CalledTimes("Health") = 1
          /\ CalledTimes("GetPerformanceMetrics") = 1
          /\ CalledTimes("ListModels") = (IF healthErr = RetNil THEN 1 ELSE 0)
          /\ trace[Len(trace)] = "GetPerformanceMetrics"

\* printStatus has returned after Health failed
C20_Witness ==
    /\ stPc = "returned"
    /\ healthErr = ErrStatus
    /\ ComponentCalls = <<"GetSystemInfo", "Health", "GetPerformanceMetrics">>
    /\ statusRet = "nil"


\* ------------------------------------------------ claims on the watch loop
\* a call of printStatus is in progress
CycleInProgress == stPc \in {"probe", "health", "models", "web", "metrics"}

\* C21: the watch loop runs one status cycle at a time: a cycle starts only
\* at the top of the loop, which is reached only on entry or when the sleep
\* after the previous cycle is over; the sleep is reached only when the cycle
\* has returned; the loop, once entered, is never left, whatever the cycle
\* returned; and after every cycle that has returned another one starts.
C21_WatchLoop ==
    /\ [][/\ (~CycleInProgress /\ CycleInProgress') =>
                (wpc = "top" /\ stPc \in {"idle", "returned"})
          /\ (wpc # "top" /\ wpc' = "top") => wpc \in {"none", "sleep"}
          /\ (wpc # "sleep" /\ wpc' = "sleep") =>
                (wpc = "cycle" /\ stPc = "returned")
          /\ wpc # "none" => wpc' # "none"]_vars
    /\ [](wpc = "cycle" => (CycleInProgress \/ stPc = "returned"))
    /\ (wpc = "cycle" /\ stPc = "returned") ~> (wpc = "cycle" /\ stPc = "probe")

\* a later cycle is in progress after an earlier one has returned
C21_Witness ==
    /\ wpc = "cycle"
    /\ cycles = 2
    /\ stPc = "health"


\* ------------------------------------------- claims on the status report
HasLine(format) == \E k \in 1..Len(report) : report[k].format = format

\* the system section has been printed
SystemReported == stPc \in {"health", "models", "web", "metrics", "returned"}

\* C22: when the probe detected a vendor (nvidia or amd), the report shows
\* the GPU model and the GPU memory of the profile, under the label of the
\* vendor they were detected from; and when the sample's GPU usage is -1, no
\* GPU usage line is printed.
C22_ReportShowsDetectedGPU ==
    /\ (SystemReported /\ sysInfo.GPUType \in {"nvidia", "amd"}) =>
          /\ \E k \in 1..Len(report) :
                /\ report[k].format = "  Model: %s"
                /\ report[k].args = <<sysInfo.GPUModel>>
          /\ \E k \in 1..Len(report) :
                /\ report[k].format = "  Memory: %d MB"
                /\ report[k].args = <<sysInfo.GPUMemory>>
          /\ HasLine("AMD GPU: %v") => sysInfo.GPUType = "amd"
    /\ (stPc = "returned" /\ sample.GPUUsage = Float(-1)) =>
          ~HasLine("GPU Usage: %.1f%%")


\* ------------------------------------------------ claims on the memory scan
\* the size the scan is said to report for the VGA line at i: that of the
\* first memory line among the lines i+1 .. i+window with no blank line
\* before it (0 when there is none)
ScanAsStated(lines, i, window) ==
    LET last == IF Len(lines) < i + window THEN Len(lines) ELSE i + window
        hits == {j \in (i + 1)..last :
                    /\ FirstSize(lines[j], FALSE) # <<>>
                    /\ \A b \in (i + 1)..j : TrimSpace(lines[b]) # <<>>}
    IN IF hits = {} THEN 0
       ELSE LET j == CHOOSE h \in hits : \A g \in hits : h <= g
                m == FirstSize(lines[j], FALSE)[1]
            IN IF m.unit = "G" THEN m.digits * 1024 ELSE m.digits

\* the memory of the detected GPU when its scan reports the given size: the
\* size itself, the fallback's value when it is 0
MemoryFor(vendor, size) ==
    IF size > 0 THEN size
    ELSE IF vendor = "nvidia" THEN getNVIDIAMemoryFromSMI(env.smi)
    ELSE getGPUMemoryAlternative(env.drm)

\* C23: the scan after the first matching VGA line at i examines the lines
\* i+1 .. i+20, stops at the first blank line and reports the first memory
\* line's size; a memory line exactly 20 lines after the VGA line is used.
C23_ScanTwentyLines ==
    Probed =>
        LET nvAt == IF env.lspci1
                    THEN FirstVendorLine(env.pci, NvidiaNames, NvidiaProducts)
                    ELSE 0
            amdAt == IF env.lspci2
                     THEN FirstVendorLine(env.pci, AmdNames, AmdProducts)
                     ELSE 0
        IN
        /\ nvAt > 0 =>
              info.GPUMemory =
                  MemoryFor("nvidia", ScanAsStated(env.pci, nvAt, 20))
        /\ (nvAt = 0 /\ amdAt > 0) =>
              info.GPUMemory =
                  MemoryFor("amd", ScanAsStated(env.pci, amdAt, 20))


\* ------------------------------------------- claims on the memory fallback
\* nvidia-smi ran and printed one decimal number
SmiParsed(smi) ==
    /\ smi.ok
    /\ Len(TrimSpace(smi.text)) = 1
    /\ TrimSpace(smi.text)[1] \in DOMAIN NumeralValue

ReadableCards(drm) ==
    {k \in 1..Len(drm.entries) :
        LET d == drm.entries[k] IN
        /\ d.name # <<>> /\ d.name[1] = "card" /\ ~Contains(d.name, "-")
        /\ d.vram.ok
        /\ Len(TrimSpace(d.vram.text)) = 1
        /\ TrimSpace(d.vram.text)[1] \in DOMAIN NumeralValue}

\* C24: a detected GPU whose PCI block gives no memory size is reported with
\* the value of the vendor source when that can be read and parsed, and with
\* 8192 MB on every failure of the source, a failure to list the DRM class
\* directory included.
C24_FallbackChain ==
    Probed =>
        /\ (info.GPUType = "nvidia" /\ ConsultsSMI(env)) =>
              info.GPUMemory =
                  (IF SmiParsed(env.smi)
                   THEN NumeralValue[TrimSpace(env.smi.text)[1]] ELSE 8192)
        /\ (info.GPUType = "amd" /\ ConsultsDRM(env)) =>
              info.GPUMemory =
                  (IF env.drm.listOk /\ ReadableCards(env.drm) # {}
                   THEN LET k == CHOOSE c \in ReadableCards(env.drm) :
                                    \A o \in ReadableCards(env.drm) : c <= o
                        IN NumeralValue[TrimSpace(env.drm.entries[k].vram.text)[1]]
                               \div (1024 * 1024)
                   ELSE 8192)


\* ------------------------------------------------- claims on the CPU usage
\* the value of the n-th field after the marker of the first stat line
StatField(n) == Jiffies[Fields(files.stat.lines[1])[n + 1]]

\* the sum of the first n fields after the marker
RECURSIVE FieldSum(_)
FieldSum(n) == IF n = 0 THEN 0 ELSE StatField(n) + FieldSum(n - 1)

\* C25: for a first stat line "cpu" with at least 8 fields, all numeric, the
\* usage r satisfies r * total = (total - idle) * 100 and 0 <= r <= 100,
\* total being the sum of the fields after the marker and idle the 4th of
\* them; the usage is 0 when the first field is not "cpu", when there are
\* fewer than 8 fields, and when total is 0.
C25_CPUUsage ==
    (Sampled /\ files.stat.open /\ files.stat.lines # <<>>) =>
        LET fields == Fields(files.stat.lines[1])
            r == metrics.CPUUsage IN
        /\ (Len(fields) < 8 \/ fields[1] # "cpu") => r = Float(0)
        /\ ValidStat(files.stat) =>
              LET total == FieldSum(Len(fields) - 1)
                  idle == StatField(4) IN
              /\ total = 0 => r = Float(0)
              /\ total > 0 =>
                    /\ r.num * total = (total - idle) * 100 * r.den
                    /\ 0 <= r.num /\ r.num <= 100 * r.den

\* a line of ten counters, the last of them not 0
C25_Witness ==
    /\ Sampled
    /\ ValidStat(files.stat)
    /\ Len(Fields(files.stat.lines[1])) = 11
    /\ StatField(4) = 2
    /\ StatField(10) = 1
    /\ metrics.CPUUsage = Float(60)
    /\ getCPUUsage(files.stat).err = "none"

\* --------------------------------------------- claims on the memory sample
\* floor(kB / 1024) of the last line of a key that has a decimal value, 0
\* when there is none
KeyMB(lines, key) ==
    LET hits == {k \in 1..Len(lines) :
                    LET fields == Fields(lines[k]) IN
                    /\ Len(fields) >= 2
                    /\ fields[1] = key \o ":"
                    /\ fields[2] \in DOMAIN NumeralValue}
    IN IF hits = {} THEN 0
       ELSE LET k == CHOOSE h \in hits : \A g \in hits : g <= h
            IN NumeralValue[Fields(lines[k])[2]] \div 1024

\* C26: MemoryUsedMB = T - F - B - C for the MB values of the MemTotal,
\* MemFree, Buffers and Cached lines (0 for a missing line), MemoryTotalMB =
\* T, and MemoryUsagePercent = used / T * 100 when T > 0 and 0 when T = 0.
C26_MemorySample ==
    (Sampled /\ files.meminfo.open) =>
        LET T == KeyMB(files.meminfo.lines, "MemTotal")
            F == KeyMB(files.meminfo.lines, "MemFree")
            B == KeyMB(files.meminfo.lines, "Buffers")
            C == KeyMB(files.meminfo.lines, "Cached")
            p == metrics.MemoryUsagePercent IN
        /\ metrics.MemoryTotalMB = T
        /\ metrics.MemoryUsedMB = T - F - B - C
        /\ p.den > 0
        /\ T > 0 => /\ T % p.den = 0
                    /\ p.num * (T \div p.den) = (T - F - B - C) * 100
        /\ T = 0 => p = Float(0)

\* all four lines are present
C26_Witness ==
    /\ Sampled
    /\ files.meminfo.open
    /\ Len(files.meminfo.lines) = 4
    /\ metrics.MemoryTotalMB = 8192
    /\ metrics.MemoryUsedMB = 8192 - 4096 - 4 - 12


\* ------------------------------------------------------ claims on checkROCm
\* C27: HasROCm is true exactly when rocminfo runs successfully from one of
\* the two paths at which it exists, or it exists at neither path and the
\* module list, which is consulted only then, contains "amdgpu".
C27_RocmDetection ==
    Probed =>
        (info.HasROCm <=>
            \/ \E k \in 1..2 : env.rocm.stat[k] /\ env.rocm.run[k]
            \/ /\ ~env.rocm.stat[1] /\ ~env.rocm.stat[2]
               /\ env.rocm.lsmodOk
               /\ Contains(env.rocm.lsmod, "amdgpu"))


\* ----------------------------------------- claims on runDownloadRecommended
InLog(line) == \E k \in 1..Len(log) : log[k] = line

\* C28: runDownloadRecommended pulls each of the three recommended models
\* once, in list order, one after the other; a failed pull does not prevent
\* the later pulls; the success line of a model is logged only if its pull
\* returned no error; and the command returns nil whatever the pulls did.
C28_RecommendedPulls ==
    cmd = "runDownloadRecommended" =>
        /\ Len(RecommendedModels) = 3
        /\ Len(pulls) <= 3
        /\ \A k \in 1..Len(pulls) : pulls[k].model = RecommendedModels[k]
        /\ pullIdx - Len(pulls) = (IF pc \in {"request", "body", "done"}
                                   THEN 1 ELSE 0)
        /\ \A k \in 1..Len(RecommendedModels) :
              InLog("Successfully downloaded " \o RecommendedModels[k]) =>
                  (k <= Len(pulls) /\ pulls[k].err = "nil")
        /\ cmdRet \in {"pending", "nil"}
        /\ pc = "returned" => (Len(pulls) = 3 /\ cmdRet = "nil")

\* the command has returned after the first and the last pull failed
C28_Witness ==
    /\ cmd = "runDownloadRecommended"
    /\ pc = "returned"
    /\ Len(pulls) = 3
    /\ pulls[1].err = "Unreachable"
    /\ pulls[2].err = "nil"
    /\ pulls[3].err = "DecodeError"
    /\ cmdRet = "nil"


\* ------------------------------------------ claims on the unknown vendor
ErrorListed(line) == \E k \in 1..Len(verr.err) : verr.err[k] = "  - " \o line

\* C29: a profile of GetSystemInfo with vendor "unknown" has GPUMemory 0 and
\* an empty model; so whenever validateRequirements lists the no-GPU
\* violation for such a profile it lists the GPU memory violation too.
C29_UnknownHasNoMemory ==
    Probed =>
        /\ info.GPUType = "unknown" =>
              (info.GPUMemory = 0 /\ info.GPUModel = <<>>)
        /\ info.GPUType = "unknown" <=> (~info.HasNVIDIA /\ ~info.HasAMDGPU)
        /\ pcChk = "validated" =>
              (ErrorListed("No supported GPU detected (NVIDIA or AMD)") =>
                  ErrorListed("GPU memory (0MB) is below recommended minimum (6GB)"))

\* CheckAll has failed on a host with docker and enough memory but no GPU
C29_Witness ==
    /\ pcChk = "validated"
    /\ env.docker
    /\ info.GPUType = "unknown"
    /\ info.SystemMemory >= 8191
    /\ ErrorListed("No supported GPU detected (NVIDIA or AMD)")
    /\ ErrorListed("GPU memory (0MB) is below recommended minimum (6GB)")

====
